---- MODULE Spec2Model ----
(***************************************************************************)
(* Model of the gravitorch training loop (BaseBasicTrainingLoop.train and  *)
(* the Vanilla / Accelerate _train_one_batch strategies), of the engine    *)
(* surface the loop consumes, and of the periodic conditions.              *)
(***************************************************************************)
EXTENDS Integers, Sequences, FiniteSets, TLC

\* ---------------------------------------------------------------- bounds
NumWorkers == 2
MaxBatches == 2
MaxLoss == 2
MaxFreq == 3
MaxCondCalls == 10
MaxCounter == 3

\* ------------------------------------------------------------- constants
\* engine.epoch and engine.iteration of a fresh engine
InitialCounter == -1
\* increment_epoch_handler of the tests calls engine.increment_epoch(2)
HandlerEpochIncrement == 2

Workers == 1..NumWorkers

\* encoding of a NaN loss; real losses are 1..MaxLoss
NaN == 0 - 1
LossValues == 1..MaxLoss
isnan(x) == x = NaN

\* EngineEvents used by the training loop
TRAIN_EPOCH_STARTED == "train_epoch_started"
TRAIN_EPOCH_COMPLETED == "train_epoch_completed"
TRAIN_ITERATION_STARTED == "train_iteration_started"
TRAIN_FORWARD_COMPLETED == "train_forward_completed"
TRAIN_BACKWARD_COMPLETED == "train_backward_completed"
TRAIN_ITERATION_COMPLETED == "train_iteration_completed"
EngineEvents == {TRAIN_EPOCH_STARTED, TRAIN_EPOCH_COMPLETED, TRAIN_ITERATION_STARTED,
                 TRAIN_FORWARD_COMPLETED, TRAIN_BACKWARD_COMPLETED, TRAIN_ITERATION_COMPLETED}
IterationEvents == {TRAIN_ITERATION_STARTED, TRAIN_FORWARD_COMPLETED,
                    TRAIN_BACKWARD_COMPLETED, TRAIN_ITERATION_COMPLETED}

\* f"{self._tag}/{ct.LOSS}" and the keys written by BatchLoadingTimer.log_stats
LossKey == "train/loss"
TimerKey == "train/epoch_time_sec"
\* a key written by log_optimizer_parameters_per_group
OptimizerKey == "train/optimizer.group0.lr"
HistoryNames == {LossKey, TimerKey, OptimizerKey}

VARIABLES
    loopKind,      \* "vanilla" or "accelerate": the class of the training loop
    clipGrad,      \* TRUE iff self._clip_grad_fn is set
    world,         \* ranks taking part in the collectives
    handlers,      \* engine: event -> sequence of subscribed handlers
    modelLosses,   \* the losses the model can give on the batches of the data source
    pc,            \* per worker: position in train()
    barrierCount,  \* per worker: number of dist.barrier() calls entered
    epoch,         \* per worker: engine.epoch
    iteration,     \* per worker: engine.iteration
    histories,     \* per worker: engine histories, name -> history
    numBatches,    \* per worker: number of batches the data loader yields
    batchIdx,      \* per worker: number of batches consumed so far
    metrics,       \* per worker: ScalarMetricTracker state for the loss key
    timerCount,    \* per worker: BatchLoadingTimer._meter.count
    trace,         \* per worker: the operations executed by train(), in order
    lastBatch,     \* per worker: loss, returned output and operations of the last _train_one_batch
    losses,        \* per worker: the losses of the batches of this epoch
    initial,       \* per worker: epoch, iteration and loss history when train() was called
    condKind,      \* class of the condition under test
    condFreq,      \* its freq
    condStep,      \* PeriodicCondition._step
    condCalls,     \* the calls made so far: live engine counter at call time and result returned
    handlerCls,    \* class of the handler objects under test
    handlerFreq,   \* their freq
    subs,          \* engine: event -> sequence of subscribed event handlers
    busLast,       \* the last operation on the event bus and what it did
    meterType,     \* class of the meters under test
    meters,        \* meter object -> its fields
    obs,           \* meter object -> the observations it was given and has not dropped
    meterLast,     \* the last operation on a meter and what it returned
    redPosted,     \* per worker: the collectives it has entered, in order
    redGot,        \* per worker: the values returned by the collectives of the current all_reduce
    redOut,        \* per worker: the meters returned by its all_reduce calls
    hist,          \* the GenericHistory under test: max_size and retained pairs
    histAdded,     \* every (step, value) pair it was given, in order
    histLast,      \* the last operation on it and what it returned
    cmpKind,       \* class of the comparator under test
    cmpBest,       \* the best value so far
    cmpBestAt,     \* position of the score that became the best value, 0 for none
    cmpScores,     \* the scores observed so far
    ctor,          \* the constructor call made in this run, its arguments and its result
    timer,         \* the BatchLoadingTimer under test: batch loader, epoch, meter, timestamps
    timerGen,      \* the generator of the most recent iter(timer)
    timerIters,    \* number of iter(timer) calls
    clock,         \* the next value of sync_perf_counter()
    timerLast,     \* the last operation on the timer and what it returned
    seedCfg,       \* engine.random_seed, engine.max_epochs and the generator behind get_random_seed
    seedLast,      \* per worker: epoch and seed of its last reseeding
    seedStable,    \* TRUE while every repeated reseeding at one epoch gave the seed it gave before
    oneCache,      \* the OneCacheDataCreator: deepcopy, is_cache_created, cached_data
    wrappedCalls,  \* the calls of the wrapped data creator's create, in order
    createCalls,   \* the engine argument of each create call on the OneCacheDataCreator
    cacheLast,     \* the last create call and what it returned
    heap,          \* the next unused object identity
    mgr,           \* the backend manager: class, constructor arguments, snapshot stack
    backend,       \* the torch.backends settings of the manager's class
    withCtl,       \* the with-blocks in progress and whether an exception is unwinding them
    backendLast,   \* the last __enter__ or __exit__ and what it raised
    sampler,       \* the ReproducibleBatchSampler
    samplerArgs,   \* the arguments the sampler was built from
    samplerIter,   \* the iterator over the sampler: batches yielded and batches left
    samplerLast    \* the last operation on the sampler and what it returned

loopVars == <<loopKind, clipGrad, world, handlers, modelLosses, pc, barrierCount, histories,
              numBatches, batchIdx, metrics, timerCount, trace, lastBatch, losses, initial>>
engineVars == <<epoch, iteration>>
condVars == <<condKind, condFreq, condStep, condCalls>>
busVars == <<handlerCls, handlerFreq, subs, busLast>>
meterVars == <<meterType, meters, obs, meterLast>>
redVars == <<redPosted, redGot, redOut>>
histVars == <<hist, histAdded, histLast>>
cmpVars == <<cmpKind, cmpBest, cmpBestAt, cmpScores>>
ctorVars == <<ctor>>
timerVars == <<timer, timerGen, timerIters, clock, timerLast>>
seedVars == <<seedCfg, seedLast, seedStable>>
cacheVars == <<oneCache, wrappedCalls, createCalls, cacheLast, heap>>
backendVars == <<mgr, backend, withCtl, backendLast>>
samplerVars == <<sampler, samplerArgs, samplerIter, samplerLast>>
compVars == <<busVars, meterVars, redVars, histVars, cmpVars, ctorVars, timerVars,
              seedVars, cacheVars, backendVars, samplerVars>>
vars == <<loopVars, engineVars, condVars, compVars>>

\* ----------------------------------------------------------- trace items
Ev(e) == <<"fire", e>>
Op(o) == <<"call", o>>
Hd(h) == <<"handler", h>>
Lg(name) == <<"log", name>>

\* ------------------------------------------------------ engine (external)
NoHistory == [kind |-> "absent", values |-> <<>>]
MinScalarHistory(values) == [kind |-> "MinScalarHistory", values |-> values]
GenericHistory(values) == [kind |-> "GenericHistory", values |-> values]

\* The part of a worker's state that sequential code reads and writes.
Ctx(w) == [epoch |-> epoch[w], iteration |-> iteration[w],
           histories |-> histories[w], trace |-> trace[w], returned |-> lastBatch[w].output]

\* return value of the function being executed
Return(c, value) == [c EXCEPT !.returned = value]

Call(c, o) == [c EXCEPT !.trace = Append(@, Op(o))]

\* a handler subscribed by the tests: engine.increment_epoch(2)
RunHandler(c, h) ==
    IF h = "increment_epoch"
    THEN [c EXCEPT !.epoch = @ + HandlerEpochIncrement, !.trace = Append(@, Hd(h))]
    ELSE [c EXCEPT !.trace = Append(@, Hd(h))]

RECURSIVE RunHandlers(_, _)
RunHandlers(c, hs) ==
    IF hs = <<>> THEN c ELSE RunHandlers(RunHandler(c, Head(hs)), Tail(hs))

\* engine.fire_event(event): runs the handlers subscribed to the event, in order
fire_event(c, e) == RunHandlers([c EXCEPT !.trace = Append(@, Ev(e))], handlers[e])

has_history(c, name) == c.histories[name].kind # "absent"

add_history(c, name, h) == [c EXCEPT !.histories[name] = h]

\* engine.log_metrics({name: value}, step): appends (step, value) to the
\* history of the name, creating a generic history when there is none
log_metric(c, name, value, step) ==
    LET h == IF has_history(c, name) THEN c.histories[name] ELSE GenericHistory(<<>>)
    IN [c EXCEPT !.histories[name] = [h EXCEPT !.values = Append(@, <<step, value>>)],
                 !.trace = Append(@, Lg(name))]

\* history.get_last_value(): EmptyHistoryError when nothing was added
get_last_value(h) ==
    IF h.values = <<>> THEN [raised |-> "EmptyHistoryError", value |-> <<>>]
    ELSE [raised |-> "none", value |-> h.values[Len(h.values)][2]]

increment_iteration(c) ==
    [c EXCEPT !.iteration = @ + 1, !.trace = Append(@, Op("increment_iteration"))]

\* --------------------------------------------------- ScalarMetricTracker
NewMetrics == [count |-> 0, total |-> 0]

\* update(output): NaN values are not accumulated
metrics_update(m, loss) ==
    IF isnan(loss) THEN m ELSE [count |-> m.count + 1, total |-> m.total + loss]

\* log_average_value(engine, prefix): logs the average of each tracked key
\* with EpochStep(engine.epoch); the average is kept as the pair (total, count)
log_average_value(c, m) ==
    LET called == Call(c, "metrics.log_average_value")
    IN IF m.count = 0 THEN called
       ELSE log_metric(called, LossKey, <<m.total, m.count>>, called.epoch)

\* ----------------------------------------------------- BatchLoadingTimer
\* log_stats(engine): nothing when no batch was seen
log_stats(c, count, timerEpoch) ==
    LET called == Call(c, "timer.log_stats")
    IN IF count = 0 THEN called
       ELSE log_metric(called, TimerKey, count, timerEpoch)

\* ------------------------------------------------------ _train_one_batch
\* faulty variant: the NaN guard only skips the backward pass
VanillaTrainOneBatch_NoEarlyReturn(c, loss) ==
    LET s1 == fire_event(c, TRAIN_ITERATION_STARTED)
        s2 == Call(s1, "optimizer.zero_grad")
        s3 == Call(s2, "model.forward")
        s4 == fire_event(s3, TRAIN_FORWARD_COMPLETED)
        s5 == IF ~isnan(loss) THEN Call(s4, "loss.backward") ELSE s4
        s6 == IF clipGrad THEN Call(s5, "clip_grad_fn") ELSE s5
        s7 == fire_event(s6, TRAIN_BACKWARD_COMPLETED)
        s8 == Call(s7, "optimizer.step")
    IN Return(fire_event(s8, TRAIN_ITERATION_COMPLETED), loss)

\* faulty variant: the optimizer step is taken before train_backward_completed is fired
VanillaTrainOneBatch_StepBeforeEvent(c, loss) ==
    LET s1 == fire_event(c, TRAIN_ITERATION_STARTED)
        s2 == Call(s1, "optimizer.zero_grad")
        s3 == Call(s2, "model.forward")
        s4 == fire_event(s3, TRAIN_FORWARD_COMPLETED)
    IN IF isnan(loss)
       THEN Return(fire_event(s4, TRAIN_ITERATION_COMPLETED), loss)
       ELSE LET s5 == Call(s4, "loss.backward")
                s6 == IF clipGrad THEN Call(s5, "clip_grad_fn") ELSE s5
                s7 == Call(s6, "optimizer.step")
                s8 == fire_event(s7, TRAIN_BACKWARD_COMPLETED)
            IN Return(fire_event(s8, TRAIN_ITERATION_COMPLETED), loss)

VanillaTrainOneBatch(c, loss) ==
    LET s1 == fire_event(c, TRAIN_ITERATION_STARTED)
        s2 == Call(s1, "optimizer.zero_grad")
        s3 == Call(s2, "model.forward")
        s4 == fire_event(s3, TRAIN_FORWARD_COMPLETED)
    IN IF isnan(loss)
       THEN Return(fire_event(s4, TRAIN_ITERATION_COMPLETED), loss)
       ELSE LET s5 == Call(s4, "loss.backward")
                s6 == IF clipGrad THEN Call(s5, "clip_grad_fn") ELSE s5
                s7 == fire_event(s6, TRAIN_BACKWARD_COMPLETED)
                s8 == Call(s7, "optimizer.step")
            IN Return(fire_event(s8, TRAIN_ITERATION_COMPLETED), loss)

\* faulty variant: the gradients are clipped after train_backward_completed is fired
AccelerateTrainOneBatch_ClipAfterEvent(c, loss) ==
    LET s1 == fire_event(c, TRAIN_ITERATION_STARTED)
        s2 == Call(s1, "optimizer.zero_grad")
        s3 == Call(s2, "model.forward")
        s4 == fire_event(s3, TRAIN_FORWARD_COMPLETED)
        s5 == IF ~isnan(loss) THEN Call(s4, "loss.backward") ELSE s4
        s6 == fire_event(s5, TRAIN_BACKWARD_COMPLETED)
        s7 == IF clipGrad THEN Call(s6, "clip_grad_fn") ELSE s6
        s8 == Call(s7, "optimizer.step")
    IN Return(fire_event(s8, TRAIN_ITERATION_COMPLETED), loss)

AccelerateTrainOneBatch(c, loss) ==
    LET s1 == fire_event(c, TRAIN_ITERATION_STARTED)
        s2 == Call(s1, "optimizer.zero_grad")
        s3 == Call(s2, "model.forward")
        s4 == fire_event(s3, TRAIN_FORWARD_COMPLETED)
        s5 == IF ~isnan(loss) THEN Call(s4, "loss.backward") ELSE s4
        s6 == IF clipGrad THEN Call(s5, "clip_grad_fn") ELSE s5
        s7 == fire_event(s6, TRAIN_BACKWARD_COMPLETED)
        s8 == Call(s7, "optimizer.step")
    IN Return(fire_event(s8, TRAIN_ITERATION_COMPLETED), loss)

TrainOneBatch(c, loss) ==
    IF loopKind = "vanilla" THEN VanillaTrainOneBatch(c, loss)
    ELSE AccelerateTrainOneBatch(c, loss)

\* ---------------------------------------------------- _prepare_training
\* faulty variant: the loss history is registered even when the engine has one
PrepareTraining_AlwaysAdd(c) ==
    LET s1 == Call(c, "manual_seed")
        s2 == Call(s1, "model.train")
        s3 == add_history(s2, LossKey, MinScalarHistory(<<>>))
        s4 == Call(s3, "show_optimizer_parameters_per_group")
    IN log_metric(s4, OptimizerKey, 0, s4.epoch)

PrepareTraining(c) ==
    LET s1 == Call(c, "manual_seed")
        s2 == Call(s1, "model.train")
        s3 == IF ~has_history(s2, LossKey)
              THEN add_history(s2, LossKey, MinScalarHistory(<<>>))
              ELSE s2
        s4 == Call(s3, "show_optimizer_parameters_per_group")
    IN log_metric(s4, OptimizerKey, 0, s4.epoch)

\* ------------------------------------------------------------- dist.barrier
\* The positions of train() inside its dist.barrier() calls, and where each
\* call returns to.
WaitPcs == {"wait1", "wait2", "wait3", "wait4", "wait5"}
AfterBarrier(p) == CASE p = "wait1" -> "prepare" [] p = "wait2" -> "loop"
                     [] p = "wait3" -> "end" [] p = "wait4" -> "complete"
                     [] p = "wait5" -> "done"

\* a worker calls dist.barrier() and waits at position p for the call to return
BarrierCall(w, p) ==
    /\ barrierCount' = [barrierCount EXCEPT ![w] = @ + 1]
    /\ pc' = [pc EXCEPT ![w] = p]

\* the call returns once every worker of the world has made as many calls
BarrierExit(w) ==
    /\ w \in world
    /\ pc[w] \in WaitPcs
    /\ \A v \in world : barrierCount[v] >= barrierCount[w]
    /\ pc' = [pc EXCEPT ![w] = AfterBarrier(pc[w])]
    /\ UNCHANGED <<loopKind, clipGrad, world, handlers, modelLosses, barrierCount, histories, numBatches,
                   batchIdx, metrics, timerCount, trace, lastBatch, losses, initial,
                   engineVars, condVars, compVars>>

\* ------------------------------------------------------------------ train
SetCtx(w, c) ==
    /\ epoch' = [epoch EXCEPT ![w] = c.epoch]
    /\ iteration' = [iteration EXCEPT ![w] = c.iteration]
    /\ histories' = [histories EXCEPT ![w] = c.histories]
    /\ trace' = [trace EXCEPT ![w] = c.trace]

\* line 78: train(engine) is called and reaches its first barrier
TrainCall(w) ==
    /\ w \in world
    /\ pc[w] = "call"
    /\ trace' = [trace EXCEPT ![w] = Call(Ctx(w), "dist.barrier").trace]
    /\ BarrierCall(w, "wait1")
    /\ UNCHANGED <<loopKind, clipGrad, world, handlers, modelLosses, histories, numBatches,
                   batchIdx, metrics, timerCount, lastBatch, losses, initial,
                   engineVars, condVars, compVars>>

\* lines 79-87: _prepare_training, fire train_epoch_started, prepare the data
\* loader (n batches), new metric tracker and timer, observer.start
TrainPrepare(w) ==
    /\ w \in world
    /\ pc[w] = "prepare"
    /\ \E n \in 0..MaxBatches :
         LET s1 == PrepareTraining(Ctx(w))
             s2 == fire_event(s1, TRAIN_EPOCH_STARTED)
             s3 == Call(s2, "prepare_model_optimizer_data_loader")
             s4 == Call(s3, "observer.start")
         IN /\ SetCtx(w, Call(s4, "dist.barrier"))
            /\ numBatches' = [numBatches EXCEPT ![w] = n]
            /\ timerCount' = [timerCount EXCEPT ![w] = [count |-> 0, epoch |-> s2.epoch]]
    /\ batchIdx' = [batchIdx EXCEPT ![w] = 0]
    /\ metrics' = [metrics EXCEPT ![w] = NewMetrics]
    /\ BarrierCall(w, "wait2")
    /\ UNCHANGED <<loopKind, clipGrad, world, handlers, modelLosses, lastBatch, losses,
                   initial, condVars, compVars>>

\* faulty variant: the iteration counter is incremented after the batch is trained
BatchBody_IncrementAfter(c, loss) ==
    LET s2 == TrainOneBatch(c, loss)
        s3 == increment_iteration(s2)
        s4 == Call(s3, "metrics.update")
        s5 == Call(s4, "observer.update")
        s6 == Call(s5, "profiler.step")
    IN [called |-> c, output |-> s2, done |-> s6]

\* lines 92-97: the body of the batch loop, for a batch whose forward pass
\* gives the loss; called is the context when _train_one_batch is entered,
\* output the context when it returns, done the context after the body
BatchBody(c, loss) ==
    LET s1 == increment_iteration(c)
        s2 == TrainOneBatch(s1, loss)
        s3 == Call(s2, "metrics.update")
        s4 == Call(s3, "observer.update")
        s5 == Call(s4, "profiler.step")
    IN [called |-> s1, output |-> s2, done |-> s5]

\* lines 90-97: one turn of the batch loop
TrainBatch(w) ==
    /\ w \in world
    /\ pc[w] = "loop"
    /\ batchIdx[w] < numBatches[w]
    /\ \E loss \in modelLosses :
         LET s0 == IF batchIdx[w] = 0 THEN Call(Ctx(w), "profiler.enter") ELSE Ctx(w)
             b == BatchBody(s0, loss)
         IN /\ SetCtx(w, b.done)
            /\ metrics' = [metrics EXCEPT ![w] = metrics_update(@, b.output.returned)]
            /\ lastBatch' = [lastBatch EXCEPT ![w] =
                   [loss |-> loss, output |-> b.output.returned,
                    ops |-> SubSeq(b.output.trace, Len(b.called.trace) + 1,
                                   Len(b.output.trace))]]
            /\ losses' = [losses EXCEPT ![w] = Append(@, loss)]
    /\ timerCount' = [timerCount EXCEPT ![w].count = @ + 1]
    /\ batchIdx' = [batchIdx EXCEPT ![w] = @ + 1]
    /\ UNCHANGED <<loopKind, clipGrad, world, handlers, modelLosses, pc, barrierCount, numBatches,
                   initial, condVars, compVars>>

\* the data loader is exhausted: the profiler scope is left (line 90-100)
TrainLoopExit(w) ==
    /\ w \in world
    /\ pc[w] = "loop"
    /\ batchIdx[w] = numBatches[w]
    /\ LET s0 == IF numBatches[w] = 0 THEN Call(Ctx(w), "profiler.enter") ELSE Ctx(w)
       IN trace' = [trace EXCEPT ![w] = Call(Call(s0, "profiler.exit"), "dist.barrier").trace]
    /\ BarrierCall(w, "wait3")
    /\ UNCHANGED <<loopKind, clipGrad, world, handlers, modelLosses, histories, numBatches,
                   batchIdx, metrics, timerCount, lastBatch, losses, initial,
                   engineVars, condVars, compVars>>

\* faulty variant: the observer is ended after the metrics are logged
TrainEndAndLog_EndAfterLog(w) ==
    /\ w \in world
    /\ pc[w] = "end"
    /\ LET s1 == log_stats(Ctx(w), timerCount[w].count, timerCount[w].epoch)
           s2 == log_average_value(s1, metrics[w])
           s3 == Call(s2, "observer.end")
       IN SetCtx(w, Call(s3, "dist.barrier"))
    /\ BarrierCall(w, "wait4")
    /\ UNCHANGED <<loopKind, clipGrad, world, handlers, modelLosses, numBatches, batchIdx,
                   metrics, timerCount, lastBatch, losses, initial, condVars, compVars>>

\* faulty variant: no barrier between the logging of the metrics and train_epoch_completed
TrainEndAndLog_NoBarrier(w) ==
    /\ w \in world
    /\ pc[w] = "end"
    /\ LET s1 == Call(Ctx(w), "observer.end")
           s2 == log_stats(s1, timerCount[w].count, timerCount[w].epoch)
           s3 == log_average_value(s2, metrics[w])
       IN SetCtx(w, s3)
    /\ pc' = [pc EXCEPT ![w] = "complete"]
    /\ UNCHANGED <<loopKind, clipGrad, world, handlers, modelLosses, barrierCount, numBatches, batchIdx,
                   metrics, timerCount, lastBatch, losses, initial, condVars, compVars>>

\* lines 102-106: observer.end, timer stats and metric averages
TrainEndAndLog(w) ==
    /\ w \in world
    /\ pc[w] = "end"
    /\ LET s1 == Call(Ctx(w), "observer.end")
           s2 == log_stats(s1, timerCount[w].count, timerCount[w].epoch)
           s3 == log_average_value(s2, metrics[w])
       IN SetCtx(w, Call(s3, "dist.barrier"))
    /\ BarrierCall(w, "wait4")
    /\ UNCHANGED <<loopKind, clipGrad, world, handlers, modelLosses, numBatches, batchIdx,
                   metrics, timerCount, lastBatch, losses, initial, condVars, compVars>>

\* line 109
TrainEpochCompleted(w) ==
    /\ w \in world
    /\ pc[w] = "complete"
    /\ SetCtx(w, Call(fire_event(Ctx(w), TRAIN_EPOCH_COMPLETED), "dist.barrier"))
    /\ BarrierCall(w, "wait5")
    /\ UNCHANGED <<loopKind, clipGrad, world, handlers, modelLosses, numBatches, batchIdx,
                   metrics, timerCount, lastBatch, losses, initial, condVars, compVars>>

\* ------------------------------------------------------------------- Init
HandlerConfigs ==
    {[e \in EngineEvents |-> <<>>]} \cup
    {[e \in EngineEvents |-> IF e = x THEN <<"increment_epoch">> ELSE <<>>] : x \in EngineEvents}

InitialHistories ==
    {[n \in HistoryNames |-> NoHistory],
     [n \in HistoryNames |-> IF n = LossKey THEN MinScalarHistory(<<<<InitialCounter, <<1, 1>>>>>>)
                             ELSE NoHistory]}

CondInit ==
    /\ condKind = "none"
    /\ condFreq = 1
    /\ condStep = 0
    /\ condCalls = <<>>

\* events of the engine that the handlers subscribe to
STARTED == "started"
TRAIN_COMPLETED == "train_completed"
EPOCH_COMPLETED == "epoch_completed"
BusEvents == {STARTED, TRAIN_COMPLETED, EPOCH_COMPLETED, TRAIN_EPOCH_STARTED,
              TRAIN_ITERATION_STARTED, TRAIN_ITERATION_COMPLETED}

NoEventHandler == [kind |-> "none", handler |-> 0, condition |-> [cls |-> "none", freq |-> 1]]
NoSubscriptions == [e \in BusEvents |-> <<>>]
NoBusOp == [op |-> "none", event |-> "none", handler |-> NoEventHandler, had |-> FALSE,
            before |-> NoSubscriptions, runs |-> <<>>]

\* an engine without subscriptions, no handler object under test
BusIdle ==
    /\ handlerCls = "none"
    /\ handlerFreq = 1
    /\ subs = NoSubscriptions
    /\ busLast = NoBusOp

\* ------------------------------------------------------------------ meters
MaxMeterValue == 1
MaxNumExamples == 2
MaxNumel == 2
MaxHeld == 2
MaxWindowSize == 2
MaxMerged == 3

\* float("inf") and float("-inf")
PosInf == 1000
NegInf == 0 - 1000
\* the alpha of an ExponentialMovingAverage, as the fraction AlphaNum / AlphaDen
AlphaNum == 1
AlphaDen == 2

\* the meter objects: A, B and C of the merge scenarios, X and Y of the checkpoint ones
MeterIds == {1, 2, 3}
MeterValues == 0..MaxMeterValue
ScalarMeterTypes == {"AverageMeter", "MeanTensorMeter", "ExtremaTensorMeter", "TensorMeter"}
MergeableMeterTypes == ScalarMeterTypes \cup {"TensorMeter2"}
MeterTypes == MergeableMeterTypes \cup {"MovingAverage", "ExponentialMovingAverage"}

Min2(a, b) == IF a <= b THEN a ELSE b
Max2(a, b) == IF a >= b THEN a ELSE b

\* tensors are flattened: sequences of values
Tensors == UNION {[1..n -> MeterValues] : n \in 1..MaxNumel}
numel(t) == Len(t)
RECURSIVE TensorSum(_)
TensorSum(t) == IF t = <<>> THEN 0 ELSE Head(t) + TensorSum(Tail(t))
TensorMin(t) == CHOOSE x \in {t[k] : k \in DOMAIN t} : \A k \in DOMAIN t : x <= t[k]
TensorMax(t) == CHOOSE x \in {t[k] : k \in DOMAIN t} : \A k \in DOMAIN t : x >= t[k]

\* the fields of a meter object; a class uses the fields it declares and
\* leaves the others as they are here
\*   count, total, min_value, max_value : the O(1) meters
\*   values : LazyFlattedTensor of a TensorMeter2, deque of a MovingAverage
\*   window_size : maxlen of the deque of a MovingAverage
\*   smoothed : ExponentialMovingAverage._smoothed_average as <<numerator, denominator>>
EmptyMeter == [count |-> 0, total |-> 0, min_value |-> PosInf, max_value |-> NegInf,
               values |-> <<>>, window_size |-> 1, smoothed |-> <<0, 1>>]

\* ---- update
\* faulty variant: every call counts for one example
AverageMeter_update_CountCalls(m, value, num_examples) ==
    [m EXCEPT !.total = @ + value * num_examples, !.count = @ + 1]

AverageMeter_update(m, value, num_examples) ==
    [m EXCEPT !.total = @ + value * num_examples, !.count = @ + num_examples]

MeanTensorMeter_update(m, t) ==
    [m EXCEPT !.total = @ + TensorSum(t), !.count = @ + numel(t)]

ExtremaTensorMeter_update(m, t) ==
    [m EXCEPT !.max_value = Max2(@, TensorMax(t)), !.min_value = Min2(@, TensorMin(t)),
              !.count = @ + numel(t)]

TensorMeter_update(m, t) ==
    [m EXCEPT !.max_value = Max2(@, TensorMax(t)), !.min_value = Min2(@, TensorMin(t)),
              !.total = @ + TensorSum(t), !.count = @ + numel(t)]

TensorMeter2_update(m, t) ==
    [m EXCEPT !.values = @ \o t, !.count = @ + numel(t)]

\* deque.append on a deque with maxlen: a full deque drops its oldest element
DequeAppend(d, maxlen, value) ==
    IF maxlen = 0 THEN <<>>
    ELSE IF Len(d) < maxlen THEN Append(d, value)
    ELSE Append(Tail(d), value)

\* deque(values, maxlen=maxlen): the last maxlen elements of values
Deque(values, maxlen) ==
    IF Len(values) <= maxlen THEN values
    ELSE SubSeq(values, Len(values) - maxlen + 1, Len(values))

MovingAverage_update(m, value) ==
    [m EXCEPT !.values = DequeAppend(@, m.window_size, value)]

\* alpha * smoothed_average + (1 - alpha) * value on fractions
ExponentialMovingAverage_update(m, value) ==
    [m EXCEPT !.smoothed = <<AlphaNum * @[1] + (AlphaDen - AlphaNum) * value * @[2],
                             AlphaDen * @[2]>>,
              !.count = @ + 1]

\* the arguments of one update call, as a sequence: <<value, num_examples>> for
\* an AverageMeter, <<value>> for the moving averages, a tensor for the others
MeterInputs(type) ==
    CASE type = "AverageMeter" -> MeterValues \X (0..MaxNumExamples)
      [] type \in {"MovingAverage", "ExponentialMovingAverage"} -> {<<v>> : v \in MeterValues}
      [] OTHER -> Tensors

meter_update(type, m, x) ==
    CASE type = "AverageMeter" -> AverageMeter_update(m, x[1], x[2])
      [] type = "MeanTensorMeter" -> MeanTensorMeter_update(m, x)
      [] type = "ExtremaTensorMeter" -> ExtremaTensorMeter_update(m, x)
      [] type = "TensorMeter" -> TensorMeter_update(m, x)
      [] type = "TensorMeter2" -> TensorMeter2_update(m, x)
      [] type = "MovingAverage" -> MovingAverage_update(m, x[1])
      [] OTHER -> ExponentialMovingAverage_update(m, x[1])

\* ---- reset
meter_reset(type, m) ==
    CASE type \in {"AverageMeter", "MeanTensorMeter"} -> [m EXCEPT !.total = 0, !.count = 0]
      [] type = "ExtremaTensorMeter" ->
            [m EXCEPT !.count = 0, !.max_value = NegInf, !.min_value = PosInf]
      [] type = "TensorMeter" ->
            [m EXCEPT !.count = 0, !.max_value = NegInf, !.min_value = PosInf, !.total = 0]
      [] type = "TensorMeter2" -> [m EXCEPT !.count = 0, !.values = <<>>]
      [] type = "MovingAverage" -> [m EXCEPT !.values = <<>>]
      [] OTHER -> [m EXCEPT !.count = 0, !.smoothed = <<0, 1>>]

\* ---- merge and merge_
\* the loop body of merge / merge_: fold one meter into the accumulated fields
MergeOne(type, acc, other) ==
    CASE type \in {"AverageMeter", "MeanTensorMeter"} ->
            [acc EXCEPT !.count = @ + other.count, !.total = @ + other.total]
      [] type = "ExtremaTensorMeter" ->
            [acc EXCEPT !.count = @ + other.count,
                        !.min_value = Min2(@, other.min_value),
                        !.max_value = Max2(@, other.max_value)]
      [] type = "TensorMeter" ->
            [acc EXCEPT !.count = @ + other.count, !.total = @ + other.total,
                        !.min_value = Min2(@, other.min_value),
                        !.max_value = Max2(@, other.max_value)]
      [] OTHER -> [acc EXCEPT !.values = @ \o other.values]

RECURSIVE MergeAll(_, _, _)
MergeAll(type, acc, others) ==
    IF others = <<>> THEN acc
    ELSE MergeAll(type, MergeOne(type, acc, Head(others)), Tail(others))

\* the constructor call that ends merge: TensorMeter2(values) counts its values
MeterFromFields(type, f) ==
    IF type = "TensorMeter2" THEN [f EXCEPT !.count = numel(f.values)] ELSE f

\* merge(meters): the receiver after the call and the meter returned
meter_merge(type, m, others) ==
    [self |-> m, out |-> MeterFromFields(type, MergeAll(type, m, others))]

\* merge_(meters): the receiver after the call
meter_merge_(type, m, others) == MergeAll(type, m, others)

\* ---- state_dict, load_state_dict, equal
state_dict(type, m) ==
    CASE type \in {"AverageMeter", "MeanTensorMeter"} -> [count |-> m.count, total |-> m.total]
      [] type = "ExtremaTensorMeter" ->
            [count |-> m.count, max_value |-> m.max_value, min_value |-> m.min_value]
      [] type = "TensorMeter" ->
            [count |-> m.count, max_value |-> m.max_value, min_value |-> m.min_value,
             total |-> m.total]
      [] type = "TensorMeter2" -> [values |-> m.values]
      [] type = "MovingAverage" -> [values |-> m.values, window_size |-> m.window_size]
      [] OTHER -> [alpha |-> <<AlphaNum, AlphaDen>>, count |-> m.count,
                   smoothed_average |-> m.smoothed]

load_state_dict(type, m, sd) ==
    CASE type \in {"AverageMeter", "MeanTensorMeter"} ->
            [m EXCEPT !.total = sd.total, !.count = sd.count]
      [] type = "ExtremaTensorMeter" ->
            [m EXCEPT !.count = sd.count, !.min_value = sd.min_value,
                      !.max_value = sd.max_value]
      [] type = "TensorMeter" ->
            [m EXCEPT !.count = sd.count, !.max_value = sd.max_value,
                      !.min_value = sd.min_value, !.total = sd.total]
      [] type = "TensorMeter2" -> [m EXCEPT !.values = sd.values]
      [] type = "MovingAverage" ->
            [m EXCEPT !.values = Deque(sd.values, sd.window_size),
                      !.window_size = sd.window_size]
      [] OTHER -> [m EXCEPT !.count = sd.count, !.smoothed = sd.smoothed_average]

meter_equal(type, a, b) == state_dict(type, a) = state_dict(type, b)

\* ---- read accessors
\* a returned number is a fraction <<numerator, denominator>>; NaNValue is nan
NaNValue == <<0, 0>>
Frac(n, d) == IF d = 0 THEN NaNValue ELSE <<n, d>>
Returns(v) == [raised |-> "none", value |-> v]
Raises(e) == [raised |-> e, value |-> NaNValue]

RECURSIVE SumSquares(_)
SumSquares(t) == IF t = <<>> THEN 0 ELSE Head(t) * Head(t) + SumSquares(Tail(t))

\* the k-th smallest element of a non-empty tensor
KthSmallest(t, k) ==
    CHOOSE x \in {t[j] : j \in DOMAIN t} :
        /\ Cardinality({j \in DOMAIN t : t[j] < x}) < k
        /\ Cardinality({j \in DOMAIN t : t[j] <= x}) >= k

\* torch reductions on the values of a TensorMeter2; on an empty tensor max, min
\* and quantile fail, mean, median and std give nan and sum gives 0
TensorRead(t, a) ==
    LET n == numel(t)
    IN CASE a = "sum" -> Returns(<<TensorSum(t), 1>>)
         [] a \in {"mean", "average"} -> Returns(Frac(TensorSum(t), n))
         [] a = "std" -> Returns(Frac(n * SumSquares(t) - TensorSum(t) * TensorSum(t),
                                      n * (n - 1)))
         [] a = "median" -> IF n = 0 THEN Returns(NaNValue)
                            ELSE Returns(<<KthSmallest(t, ((n - 1) \div 2) + 1), 1>>)
         [] a = "max" -> IF n = 0 THEN Raises("RuntimeError") ELSE Returns(<<TensorMax(t), 1>>)
         [] a = "min" -> IF n = 0 THEN Raises("RuntimeError") ELSE Returns(<<TensorMin(t), 1>>)
         [] OTHER -> IF n = 0 THEN Raises("RuntimeError")
                     ELSE Returns(<<KthSmallest(t, ((n - 1) \div 2) + 1)
                                    + KthSmallest(t, (n \div 2) + 1), 2>>)

\* the read accessors of each class; quantile is called with q = 0.5
Accessors(type) ==
    CASE type = "AverageMeter" -> {"average", "sum"}
      [] type = "MeanTensorMeter" -> {"average", "mean", "sum"}
      [] type = "ExtremaTensorMeter" -> {"max", "min"}
      [] type = "TensorMeter" -> {"average", "max", "mean", "min", "sum"}
      [] type = "TensorMeter2" -> {"average", "max", "mean", "median", "min", "quantile",
                                   "std", "sum"}
      [] OTHER -> {"smoothed_average"}

\* the guarded value of accessor a on a meter of one of the O(1) classes
ScalarRead(m, a) ==
    CASE a \in {"average", "mean"} -> Returns(Frac(m.total, m.count))
      [] a = "sum" -> Returns(<<m.total, 1>>)
      [] a = "max" -> Returns(<<m.max_value, 1>>)
      [] OTHER -> Returns(<<m.min_value, 1>>)

\* a call of accessor a on meter m
meter_read(type, m, a) ==
    CASE type \in ScalarMeterTypes ->
            IF m.count = 0 THEN Raises("EmptyMeterError") ELSE ScalarRead(m, a)
      [] type = "TensorMeter2" ->
            IF m.count = 0 THEN Raises("EmptyMeterError") ELSE TensorRead(m.values, a)
      [] type = "MovingAverage" ->
            IF m.values = <<>> THEN Raises("EmptyMeterError")
            ELSE Returns(Frac(TensorSum(m.values), numel(m.values)))
      [] OTHER ->
            IF m.count = 0 THEN Raises("EmptyMeterError") ELSE Returns(m.smoothed)

\* the count property, for the classes that have one
HasCount(type) == type # "MovingAverage"

\* ---- the observations a meter was given and has not dropped, as a bag
EmptyObs == [v \in MeterValues |-> 0]
AddObs(a, b) == [v \in MeterValues |-> a[v] + b[v]]
TensorObs(t) == [v \in MeterValues |-> Cardinality({k \in DOMAIN t : t[k] = v})]
InputObs(type, x) ==
    IF type = "AverageMeter" THEN [v \in MeterValues |-> IF v = x[1] THEN x[2] ELSE 0]
    ELSE TensorObs(x)
RECURSIVE SumOver(_, _)
SumOver(S, f) == IF S = {} THEN 0
                 ELSE LET v == CHOOSE x \in S : TRUE IN f[v] + SumOver(S \ {v}, f)
Held(b) == SumOver(MeterValues, b)
ObsTotal(b) == SumOver(MeterValues, [v \in MeterValues |-> v * b[v]])
ObsMin(b) == IF Held(b) = 0 THEN PosInf
             ELSE CHOOSE v \in MeterValues : b[v] > 0 /\ \A u \in MeterValues : b[u] > 0 => v <= u
ObsMax(b) == IF Held(b) = 0 THEN NegInf
             ELSE CHOOSE v \in MeterValues : b[v] > 0 /\ \A u \in MeterValues : b[u] > 0 => v >= u
RECURSIVE AddAllObs(_, _, _)
AddAllObs(o, b, js) == IF js = <<>> THEN b ELSE AddAllObs(o, AddObs(b, o[Head(js)]), Tail(js))

\* the observations held after update(x): a full deque drops its oldest value
ObsAfterUpdate(type, m, b, x) ==
    IF type = "MovingAverage" /\ Len(m.values) >= m.window_size
    THEN [v \in MeterValues |-> b[v] + (IF v = x[1] THEN 1 ELSE 0)
                                     - (IF v = Head(m.values) THEN 1 ELSE 0)]
    ELSE AddObs(b, InputObs(type, x))

\* ---- operations on the meters
NoMeterOp == [op |-> "none", meter |-> 0, args |-> <<>>, accessor |-> "none",
              result |-> Returns(NaNValue), out |-> EmptyMeter]
MeterIdle ==
    /\ meterType = "none"
    /\ meters = [i \in MeterIds |-> EmptyMeter]
    /\ obs = [i \in MeterIds |-> EmptyObs]
    /\ meterLast = NoMeterOp

\* ------------------------------------------------------------- all_reduce
MaxReduceCalls == 2

SUM == "SUM"
MIN == "MIN"
MAX == "MAX"
Collective(op, value) == [op |-> op, value |-> value]

\* faulty variant: an empty meter reduces its extrema before its count
AllReducePlan_EmptyExtremaFirst(type, m) ==
    CASE type = "AverageMeter" -> <<Collective(SUM, m.total), Collective(SUM, m.count)>>
      [] type = "MeanTensorMeter" -> <<Collective(SUM, m.count), Collective(SUM, m.total)>>
      [] type = "ExtremaTensorMeter" ->
            IF m.count = 0
            THEN <<Collective(MIN, m.min_value), Collective(MAX, m.max_value),
                   Collective(SUM, m.count)>>
            ELSE <<Collective(SUM, m.count), Collective(MIN, m.min_value),
                   Collective(MAX, m.max_value)>>
      [] OTHER -> <<Collective(SUM, m.count), Collective(SUM, m.total),
                    Collective(MIN, m.min_value), Collective(MAX, m.max_value)>>

\* faulty variant: the minimum is reduced with MAX
AllReducePlan_MinWithMax(type, m) ==
    CASE type = "AverageMeter" -> <<Collective(SUM, m.total), Collective(SUM, m.count)>>
      [] type = "MeanTensorMeter" -> <<Collective(SUM, m.count), Collective(SUM, m.total)>>
      [] type = "ExtremaTensorMeter" ->
            <<Collective(SUM, m.count), Collective(MAX, m.min_value),
              Collective(MAX, m.max_value)>>
      [] OTHER -> <<Collective(SUM, m.count), Collective(SUM, m.total),
                    Collective(MAX, m.min_value), Collective(MAX, m.max_value)>>

\* the sync_reduce calls of one all_reduce(), in the order the arguments of the
\* constructor call are evaluated
AllReducePlan(type, m) ==
    CASE type = "AverageMeter" -> <<Collective(SUM, m.total), Collective(SUM, m.count)>>
      [] type = "MeanTensorMeter" -> <<Collective(SUM, m.count), Collective(SUM, m.total)>>
      [] type = "ExtremaTensorMeter" ->
            <<Collective(SUM, m.count), Collective(MIN, m.min_value),
              Collective(MAX, m.max_value)>>
      [] OTHER -> <<Collective(SUM, m.count), Collective(SUM, m.total),
                    Collective(MIN, m.min_value), Collective(MAX, m.max_value)>>

\* the meter that all_reduce() builds from the values its sync_reduce calls returned
AllReduceResult(type, got) ==
    CASE type = "AverageMeter" -> [EmptyMeter EXCEPT !.total = got[1], !.count = got[2]]
      [] type = "MeanTensorMeter" -> [EmptyMeter EXCEPT !.count = got[1], !.total = got[2]]
      [] type = "ExtremaTensorMeter" ->
            [EmptyMeter EXCEPT !.count = got[1], !.min_value = got[2], !.max_value = got[3]]
      [] OTHER -> [EmptyMeter EXCEPT !.count = got[1], !.total = got[2],
                                     !.min_value = got[3], !.max_value = got[4]]

\* the value a reduction returns on every worker
ReduceValues(op, f) ==
    CASE op = SUM -> SumOver(Workers, f)
      [] op = MIN -> CHOOSE x \in {f[w] : w \in Workers} : \A w \in Workers : x <= f[w]
      [] OTHER -> CHOOSE x \in {f[w] : w \in Workers} : \A w \in Workers : x >= f[w]

RedIdle ==
    /\ redPosted = [w \in Workers |-> <<>>]
    /\ redGot = [w \in Workers |-> <<>>]
    /\ redOut = [w \in Workers |-> <<>>]

\* ------------------------------------------------------- GenericHistory
MaxHistSize == 2       \* max_size ranges over 0..MaxHistSize
MaxElements == 2       \* number of initial elements
MaxAdded == 3          \* number of add_value calls
MaxHistValue == 1
NoStep == 0 - 1        \* step=None
HistValues == 0..MaxHistValue
HistSteps == {NoStep, 0}
HistPairs == {<<s, v>> : s \in HistSteps, v \in HistValues}

SeqsUpTo(S, n) == UNION {[1..k -> S] : k \in 0..n}

\* GenericHistory(name, elements, max_size): ValueError unless max_size > 0
GenericHistory_init(elements, max_size) ==
    IF max_size <= 0
    THEN [raised |-> "ValueError", max_size |-> max_size, values |-> <<>>]
    ELSE [raised |-> "none", max_size |-> max_size, values |-> Deque(elements, max_size)]

add_value_AppendLeft(h, value, step) ==
    [h EXCEPT !.values = IF Len(@) < h.max_size THEN <<(<<step, value>>)>> \o @
                         ELSE <<(<<step, value>>)>> \o SubSeq(@, 1, Len(@) - 1)]

\* history.add_value(value, step): self._history.append((step, value))
add_value(h, value, step) ==
    [h EXCEPT !.values = DequeAppend(@, h.max_size, <<step, value>>)]

get_recent_history(h) == h.values
is_empty(h) == h.values = <<>>

NoHistOp == [op |-> "none", result |-> [raised |-> "none", value |-> <<>>]]

HistIdle ==
    /\ hist = GenericHistory_init(<<>>, 1)
    /\ histAdded = <<>>
    /\ histLast = NoHistOp

\* ----------------------------------------------------------- comparators
MaxScore == 2
MaxScores == 4         \* number of scores observed
Scores == 0..MaxScore
ComparatorKinds == {"MaxScalarComparator", "MinScalarComparator"}

get_initial_best_value(kind) ==
    IF kind = "MaxScalarComparator" THEN NegInf ELSE PosInf

is_better_Strict(kind, old_value, new_value) ==
    IF kind = "MaxScalarComparator" THEN old_value < new_value ELSE new_value < old_value

is_better(kind, old_value, new_value) ==
    IF kind = "MaxScalarComparator" THEN old_value <= new_value ELSE new_value <= old_value

CmpIdle ==
    /\ cmpKind = "none"
    /\ cmpBest = 0
    /\ cmpBestAt = 0
    /\ cmpScores = <<>>

\* ------------------------------------------------------------ constructors
MaxCtorParam == 2      \* max_size, window_size and freq range over -1..MaxCtorParam
ClipValueDefault == <<1, 4>>     \* 0.25
MaxNormDefault == <<1, 1>>
NormTypeDefault == <<2, 1>>
ClipNumbers == {<<1, 10>>, <<1, 1>>}
ClipKeys == {"name", "clip_value", "max_norm", "norm_type"}
ClipNames == {"clip_grad_value", "clip_grad_norm", "incorrect name"}
LoopKinds == {"vanilla", "accelerate"}

\* clip_grad=None
NoClipGrad == [none |-> TRUE, keys |-> {}, name |-> "clip_grad_value",
               clip_value |-> ClipValueDefault, max_norm |-> MaxNormDefault,
               norm_type |-> NormTypeDefault]

\* the dicts given as clip_grad: a key that is absent has no value of its own
ClipGradDicts ==
    {d \in [none : {FALSE}, keys : SUBSET ClipKeys, name : ClipNames,
            clip_value : ClipNumbers \cup {ClipValueDefault},
            max_norm : ClipNumbers, norm_type : {MaxNormDefault, NormTypeDefault}] :
        /\ "name" \notin d.keys => d.name = NoClipGrad.name
        /\ "clip_value" \notin d.keys => d.clip_value = NoClipGrad.clip_value
        /\ "max_norm" \notin d.keys => d.max_norm = NoClipGrad.max_norm
        /\ "norm_type" \notin d.keys => d.norm_type = NoClipGrad.norm_type
        /\ "clip_value" \in d.keys => d.clip_value \in ClipNumbers}

ClipGradConfigs == {NoClipGrad} \cup ClipGradDicts

\* clip_grad.get(key, default)
DictGet(d, key, default) == IF key \in d.keys THEN d[key] ELSE default

ClipGradFn(kind, name) ==
    IF kind = "vanilla" THEN "torch.nn.utils." \o name \o "_"
    ELSE "accelerator." \o name \o "_"

NoClipGradFn == [raised |-> "none", clip_grad_fn |-> "None", clip_grad_args |-> <<>>]

setup_clip_grad_LazyName(kind, clip_grad) ==
    IF clip_grad.none \/ clip_grad.keys = {} THEN NoClipGradFn
    ELSE IF "name" \notin clip_grad.keys
    THEN [NoClipGradFn EXCEPT !.raised = "KeyError"]
    ELSE IF clip_grad.name = "clip_grad_value"
    THEN [raised |-> "none", clip_grad_fn |-> ClipGradFn(kind, clip_grad.name),
          clip_grad_args |-> <<DictGet(clip_grad, "clip_value", ClipValueDefault)>>]
    ELSE IF clip_grad.name = "clip_grad_norm"
    THEN [raised |-> "none", clip_grad_fn |-> ClipGradFn(kind, clip_grad.name),
          clip_grad_args |-> <<DictGet(clip_grad, "max_norm", MaxNormDefault),
                               DictGet(clip_grad, "norm_type", NormTypeDefault)>>]
    ELSE [raised |-> "none", clip_grad_fn |-> ClipGradFn(kind, clip_grad.name),
          clip_grad_args |-> <<>>]

\* self._setup_clip_grad(clip_grad or {}) of both loop classes
setup_clip_grad(kind, clip_grad) ==
    IF clip_grad.none \/ clip_grad.keys = {} THEN NoClipGradFn
    ELSE IF "name" \notin clip_grad.keys
    THEN [NoClipGradFn EXCEPT !.raised = "KeyError"]
    ELSE IF clip_grad.name = "clip_grad_value"
    THEN [raised |-> "none", clip_grad_fn |-> ClipGradFn(kind, clip_grad.name),
          clip_grad_args |-> <<DictGet(clip_grad, "clip_value", ClipValueDefault)>>]
    ELSE IF clip_grad.name = "clip_grad_norm"
    THEN [raised |-> "none", clip_grad_fn |-> ClipGradFn(kind, clip_grad.name),
          clip_grad_args |-> <<DictGet(clip_grad, "max_norm", MaxNormDefault),
                               DictGet(clip_grad, "norm_type", NormTypeDefault)>>]
    ELSE [NoClipGradFn EXCEPT !.raised = "ValueError"]

CtorParams == (0 - 1)..MaxCtorParam

\* deque(values, maxlen=maxlen): ValueError when maxlen is negative
deque_init(maxlen) == IF maxlen < 0 THEN "ValueError" ELSE "none"

\* the exception raised by cls(param), "none" when the object is built
SizedInit(cls, param) ==
    CASE cls = "GenericHistory" -> GenericHistory_init(<<>>, param).raised
      [] cls = "MovingAverage" -> deque_init(param)
      [] OTHER -> IF param < 1 THEN "ValueError" ELSE "none"

NoCtor == [cls |-> "none", clip_grad |-> NoClipGrad, param |-> 0,
           result |-> NoClipGradFn]

CtorIdle == ctor = NoCtor

\* ------------------------------------------------------ BatchLoadingTimer
MaxTimerBatches == 2   \* number of batches of the wrapped batch loader
MaxTimerIters == 2     \* number of iterations started over one timer
MaxClock == 3          \* time the consumer may spend outside the timer
MaxTimerEpoch == 1
NoTime == 0 - 1        \* self._start_time / self._end_time is None
TimerPrefix == "train/"
StatKeys == {"batch_load_time_avg_ms", "batch_load_time_max_ms", "batch_load_time_median_ms",
             "batch_load_time_min_ms", "batch_load_time_pct", "batch_load_time_stddev_ms",
             "iter_time_avg_ms", "epoch_time_sec", "num_batches"}

\* BatchLoadingTimer(batch_loader, epoch, prefix); the batch loader yields the
\* batches 1..n
BatchLoadingTimer_init(n, ep, prefix) ==
    [batch_loader |-> [i \in 1..n |-> i], epoch |-> ep, prefix |-> prefix,
     count |-> 0, total |-> 0, start_time |-> NoTime, end_time |-> NoTime]

\* a generator made by iter(timer): not started, suspended at the yield, or finished
NoGenerator == [state |-> "none", index |-> 0, yielded |-> <<>>, started_at |-> NoTime,
                ended_at |-> NoTime]
NewGenerator == [NoGenerator EXCEPT !.state = "created"]

EmptyStats == [raised |-> "none", keys |-> {}, epoch_time_sec |-> 0, num_batches |-> 0]

get_stats_NoCountTest(t) ==
    IF t.start_time = NoTime \/ t.end_time = NoTime
    THEN [EmptyStats EXCEPT !.raised = "TypeError"]
    ELSE LET epoch_time_sec == t.end_time - t.start_time
         IN IF t.count = 0 \/ epoch_time_sec = 0
            THEN [EmptyStats EXCEPT !.raised = "ZeroDivisionError"]
            ELSE [raised |-> "none", keys |-> StatKeys,
                  epoch_time_sec |-> epoch_time_sec, num_batches |-> t.count]

\* timer.get_stats(): {} when the meter is empty; the subtraction fails on a
\* timestamp that is None and the load percentage on a zero epoch time
get_stats(t) ==
    IF t.count = 0 THEN EmptyStats
    ELSE IF t.start_time = NoTime \/ t.end_time = NoTime
    THEN [EmptyStats EXCEPT !.raised = "TypeError"]
    ELSE LET epoch_time_sec == t.end_time - t.start_time
         IN IF epoch_time_sec = 0
            THEN [EmptyStats EXCEPT !.raised = "ZeroDivisionError"]
            ELSE [raised |-> "none", keys |-> StatKeys,
                  epoch_time_sec |-> epoch_time_sec, num_batches |-> t.count]

\* the engine.log_metrics calls made by timer.log_stats(engine)
log_stats_calls_Unprefixed(t, engine) ==
    IF t.count = 0 THEN <<>>
    ELSE LET stats == get_stats(t)
         IN IF stats.raised # "none" \/ ~engine THEN <<>>
            ELSE <<[keys |-> stats.keys, step |-> t.epoch]>>

log_stats_calls(t, engine) ==
    IF t.count = 0 THEN <<>>
    ELSE LET stats == get_stats(t)
         IN IF stats.raised # "none" \/ ~engine THEN <<>>
            ELSE <<[keys |-> {t.prefix \o key : key \in stats.keys}, step |-> t.epoch]>>

NoTimerOp == [op |-> "none", engine |-> FALSE, stats |-> EmptyStats, calls |-> <<>>]

TimerIdle ==
    /\ timer = BatchLoadingTimer_init(0, 0, TimerPrefix)
    /\ timerGen = NoGenerator
    /\ timerIters = 0
    /\ clock = 0
    /\ timerLast = NoTimerOp

\* ---------------------------------------------------------------- reseeding
MaxRandomSeed == 1     \* engine.random_seed ranges over 0..MaxRandomSeed
MaxEpochs == 2         \* engine.max_epochs ranges over 0..MaxEpochs
SeedModulus == 16      \* number of values of a seed (2^64 in torch)
RngMultipliers == {3, 5}
RngIncrements == {1, 7}

\* dist.get_rank() of a worker
get_rank(w) == w - 1

\* get_random_seed(seed): the first draw of a generator seeded with seed,
\* a one-to-one map of the seeds onto -SeedModulus/2 .. SeedModulus/2 - 1
get_random_seed(rng, seed) ==
    ((rng.mul * seed + rng.add) % SeedModulus) - (SeedModulus \div 2)

\* the seed given to manual_seed by _prepare_training
PrepareSeed(rng, random_seed, ep, max_epochs, rank) ==
    get_random_seed(rng, get_random_seed(rng, random_seed + ep + max_epochs * rank))

NoSeed == [set |-> FALSE, epoch |-> 0, seed |-> 0]

SeedIdle ==
    /\ seedCfg = [random_seed |-> 0, max_epochs |-> 0, mul |-> 1, add |-> 0]
    /\ seedLast = [w \in Workers |-> NoSeed]
    /\ seedStable = TRUE

\* ----------------------------------------------------- OneCacheDataCreator
MaxCreateCalls == 3
MaxCacheEngine == 1
\* the engine argument of create: 0 is None
CacheEngines == 0..MaxCacheEngine
\* a piece of data: what it holds, which object it is, whether copy.deepcopy accepts it
NoData == [content |-> 0, obj |-> 0, copyable |-> TRUE]
OneCacheDataCreator_init(deepcopy) ==
    [deepcopy |-> deepcopy, is_cache_created |-> FALSE, cached_data |-> NoData]

\* copy.deepcopy(data) guarded by try / except TypeError
TryDeepcopy(data, fresh) ==
    IF data.copyable THEN [data |-> [data EXCEPT !.obj = fresh], warned |-> FALSE]
    ELSE [data |-> data, warned |-> TRUE]

\* faulty variant: the cache is never marked as created
OneCacheDataCreator_create_NoMark(c, engine, outcome, copyable, fresh) ==
    LET invoke == ~c.is_cache_created
        made == [content |-> engine + 1, obj |-> fresh, copyable |-> copyable]
    IN IF invoke /\ outcome = "raise"
       THEN [self |-> c, invoked |-> TRUE, raised |-> "Exception", data |-> NoData,
             warned |-> FALSE, allocated |-> 0]
       ELSE LET c2 == IF invoke THEN [c EXCEPT !.cached_data = made] ELSE c
                n == IF invoke THEN 1 ELSE 0
                cp == TryDeepcopy(c2.cached_data, fresh + n)
            IN IF c2.deepcopy
               THEN [self |-> c2, invoked |-> invoke, raised |-> "none", data |-> cp.data,
                     warned |-> cp.warned, allocated |-> n + (IF cp.warned THEN 0 ELSE 1)]
               ELSE [self |-> c2, invoked |-> invoke, raised |-> "none",
                     data |-> c2.cached_data, warned |-> FALSE, allocated |-> n]

\* OneCacheDataCreator.create(engine); outcome and copyable say what the wrapped
\* creator does if it is invoked, fresh is the next unused object
OneCacheDataCreator_create(c, engine, outcome, copyable, fresh) ==
    LET invoke == ~c.is_cache_created
        made == [content |-> engine + 1, obj |-> fresh, copyable |-> copyable]
    IN IF invoke /\ outcome = "raise"
       THEN [self |-> c, invoked |-> TRUE, raised |-> "Exception", data |-> NoData,
             warned |-> FALSE, allocated |-> 0]
       ELSE LET c2 == IF invoke
                      THEN [c EXCEPT !.cached_data = made, !.is_cache_created = TRUE]
                      ELSE c
                n == IF invoke THEN 1 ELSE 0
                cp == TryDeepcopy(c2.cached_data, fresh + n)
            IN IF c2.deepcopy
               THEN [self |-> c2, invoked |-> invoke, raised |-> "none", data |-> cp.data,
                     warned |-> cp.warned, allocated |-> n + (IF cp.warned THEN 0 ELSE 1)]
               ELSE [self |-> c2, invoked |-> invoke, raised |-> "none",
                     data |-> c2.cached_data, warned |-> FALSE, allocated |-> n]

NoCacheOp == [op |-> "none", engine |-> 0, cached_before |-> FALSE, invoked |-> FALSE,
              raised |-> "none", data |-> NoData, warned |-> FALSE]

CacheIdle ==
    /\ oneCache = OneCacheDataCreator_init(FALSE)
    /\ wrappedCalls = <<>>
    /\ createCalls = <<>>
    /\ cacheLast = NoCacheOp
    /\ heap = 1

\* --------------------------------- PyTorchCudaBackend and PyTorchCudnnBackend
MaxSettingValue == 1
MaxDepth == 2
NoSetting == 0 - 1
\* a value that torch refuses to set
BadSetting == 0 - 2
BackendClasses == {"PyTorchCudaBackend", "PyTorchCudnnBackend"}
\* the settings of each backend, in the order in which configure writes them
CudaSettings ==
    <<"allow_tf32", "allow_fp16_reduced_precision_reduction", "flash_sdp_enabled",
      "math_sdp_enabled", "preferred_linalg_backend">>
CudnnSettings == <<"allow_tf32", "benchmark", "benchmark_limit", "deterministic", "enabled">>
BackendSettings(cls) == IF cls = "PyTorchCudaBackend" THEN CudaSettings ELSE CudnnSettings
SettingNames(cls) == {BackendSettings(cls)[k] : k \in 1..Len(BackendSettings(cls))}
\* the setting whose setter validates its argument
ValidatedSetting(cls) ==
    IF cls = "PyTorchCudaBackend" THEN "preferred_linalg_backend" ELSE "benchmark_limit"
SettingValues == 0..MaxSettingValue
\* the constructor arguments: None, a value, or a value torch refuses
BackendArgs(cls) ==
    {cfg \in [SettingNames(cls) -> {NoSetting, BadSetting} \cup SettingValues] :
        \A n \in SettingNames(cls) : cfg[n] = BadSetting => n = ValidatedSetting(cls)}
DefaultBackend(cls) == [n \in SettingNames(cls) |-> 0]
Backend_init(cls, cfg) == [cls |-> cls, cfg |-> cfg, state |-> <<>>]

\* configure(): the settings that are not None are written in order
RECURSIVE ConfigureFrom(_, _, _, _)
ConfigureFrom(names, cfg, b, k) ==
    IF k > Len(names) THEN [backend |-> b, raised |-> "none"]
    ELSE IF cfg[names[k]] = NoSetting THEN ConfigureFrom(names, cfg, b, k + 1)
    ELSE IF cfg[names[k]] = BadSetting THEN [backend |-> b, raised |-> "RuntimeError"]
    ELSE ConfigureFrom(names, cfg, [b EXCEPT ![names[k]] = cfg[names[k]]], k + 1)
configure(m, b) == ConfigureFrom(BackendSettings(m.cls), m.cfg, b, 1)

\* __enter__: snapshot the settings, then configure
Backend_enter(m, b) ==
    LET r == configure(m, b)
    IN [self |-> [m EXCEPT !.state = Append(@, b)], backend |-> r.backend,
        raised |-> r.raised]

\* __exit__: pop the last snapshot and restore it
Backend_exit(m, b) ==
    IF m.state = <<>> THEN [self |-> m, backend |-> b, raised |-> "IndexError"]
    ELSE [self |-> [m EXCEPT !.state = SubSeq(@, 1, Len(@) - 1)],
          backend |-> m.state[Len(m.state)], raised |-> "none"]

NoBackendOp == [op |-> "none", raised |-> "none"]
NoWith == [depth |-> 0, exc |-> FALSE]

BackendIdle ==
    /\ mgr = Backend_init("PyTorchCudaBackend", [n \in SettingNames("PyTorchCudaBackend") |-> NoSetting])
    /\ backend = DefaultBackend("PyTorchCudaBackend")
    /\ withCtl = NoWith
    /\ backendLast = NoBackendOp

\* ------------------------------------------------- ReproducibleBatchSampler
MaxDataset == 4
MaxBatchSize == 2
MaxStartIteration == 3
Min2i(a, b) == IF a < b THEN a ELSE b
\* the batches of BatchSampler(SequentialSampler(range(n)), batch_size, drop_last)
NumBatches(n, batch_size, drop_last) ==
    IF drop_last THEN n \div batch_size ELSE (n + batch_size - 1) \div batch_size
BatchSampler_batches(n, batch_size, drop_last) ==
    [j \in 1..NumBatches(n, batch_size, drop_last) |->
        [k \in 1..(Min2i(j * batch_size, n) - (j - 1) * batch_size) |->
            (j - 1) * batch_size + k - 1]]

ReproducibleBatchSampler_init(batch_sampler, start_iteration) ==
    IF start_iteration < 0
    THEN [raised |-> "ValueError", batch_sampler |-> <<>>, start_iteration |-> 0]
    ELSE [raised |-> "none", batch_sampler |-> batch_sampler,
          start_iteration |-> start_iteration]

\* list(self.batch_sampler)[self._start_iteration:]
ReproducibleBatchSampler_iter(s) ==
    SubSeq(s.batch_sampler, s.start_iteration + 1, Len(s.batch_sampler))

ReproducibleBatchSampler_len(s) == Len(s.batch_sampler)

NoIteration == [active |-> FALSE, done |-> FALSE, yielded |-> <<>>, rest |-> <<>>]
NoSamplerOp == [op |-> "none", value |-> 0]

SamplerIdle ==
    /\ sampler = ReproducibleBatchSampler_init(<<>>, 0)
    /\ samplerArgs = [n |-> 0, batch_size |-> 1, drop_last |-> FALSE, start_iteration |-> 0]
    /\ samplerIter = NoIteration
    /\ samplerLast = NoSamplerOp

\* the components that take no part in a run of train() or of a condition
CompIdle ==
    /\ BusIdle
    /\ MeterIdle
    /\ RedIdle
    /\ HistIdle
    /\ CmpIdle
    /\ CtorIdle
    /\ TimerIdle
    /\ SeedIdle
    /\ CacheIdle
    /\ BackendIdle
    /\ SamplerIdle

LoopInit(worlds, kinds, clips, handlerConfigs, initialHistories, lossSets) ==
    /\ modelLosses \in lossSets
    /\ loopKind \in kinds
    /\ clipGrad \in clips
    /\ world \in worlds
    /\ handlers \in handlerConfigs
    /\ pc = [w \in Workers |-> IF w \in world THEN "call" ELSE "idle"]
    /\ barrierCount = [w \in Workers |-> 0]
    /\ epoch = [w \in Workers |-> InitialCounter]
    /\ iteration = [w \in Workers |-> InitialCounter]
    /\ \E h \in initialHistories : histories = [w \in Workers |-> h]
    /\ numBatches = [w \in Workers |-> 0]
    /\ batchIdx = [w \in Workers |-> 0]
    /\ metrics = [w \in Workers |-> NewMetrics]
    /\ timerCount = [w \in Workers |-> [count |-> 0, epoch |-> InitialCounter]]
    /\ trace = [w \in Workers |-> <<>>]
    /\ lastBatch = [w \in Workers |-> [loss |-> NaN, output |-> NaN, ops |-> <<>>]]
    /\ losses = [w \in Workers |-> <<>>]
    /\ initial = [w \in Workers |-> [epoch |-> epoch[w], iteration |-> iteration[w],
                                     loss |-> histories[w][LossKey]]]

\* one process, not distributed: train() of either loop class, with or without
\* gradient clipping, on an engine with or without a handler and a loss history
Init ==
    /\ LoopInit({{1}}, {"vanilla", "accelerate"}, BOOLEAN, HandlerConfigs, InitialHistories,
                {LossValues \cup {NaN}})
    /\ CondInit
    /\ CompIdle

\* NumWorkers processes of a distributed run, each calling train() on its engine
DistInit ==
    /\ LoopInit({Workers}, {"vanilla", "accelerate"}, {FALSE},
                {[e \in EngineEvents |-> <<>>]}, {[n \in HistoryNames |-> NoHistory]},
                {{1, NaN}})
    /\ CondInit
    /\ CompIdle

\* ------------------------------------------------------ periodic conditions
CondKinds == {"PeriodicCondition", "EpochPeriodicCondition", "IterationPeriodicCondition"}

\* faulty variant: the step is advanced before it is tested
PeriodicConditionCall_CountFromOne(step, freq) == (step + 1) % freq = 0

\* PeriodicCondition.__call__: the answer for the current value of the step
PeriodicConditionCall(step, freq) == step % freq = 0

\* EpochPeriodicCondition.__call__ / IterationPeriodicCondition.__call__:
\* the answer for the engine counter read at call time
EnginePeriodicConditionCall(counter, freq) == counter % freq = 0

CondUnchangedLoop == UNCHANGED <<loopVars, compVars>>

\* the engine counter a condition of the class under test is about, as it is now
LiveCounter ==
    CASE condKind = "EpochPeriodicCondition" -> epoch[1]
      [] condKind = "IterationPeriodicCondition" -> iteration[1]
      [] OTHER -> 0

\* condition() on a PeriodicCondition: answers and advances its step
CallPeriodicCondition ==
    /\ condKind = "PeriodicCondition"
    /\ Len(condCalls) < MaxCondCalls
    /\ condCalls' = Append(condCalls, [counter |-> LiveCounter,
                                       result |-> PeriodicConditionCall(condStep, condFreq)])
    /\ condStep' = condStep + 1
    /\ UNCHANGED <<condKind, condFreq, engineVars>>
    /\ CondUnchangedLoop

\* faulty variant: the condition answers from the counter value of its first call
CallEpochPeriodicCondition_Cached ==
    /\ condKind = "EpochPeriodicCondition"
    /\ Len(condCalls) < MaxCondCalls
    /\ LET read == IF condCalls = <<>> THEN epoch[1] ELSE condCalls[1].counter
       IN condCalls' = Append(condCalls, [counter |-> LiveCounter,
                                          result |-> EnginePeriodicConditionCall(read, condFreq)])
    /\ UNCHANGED <<condKind, condFreq, condStep, engineVars>>
    /\ CondUnchangedLoop

\* condition() on an EpochPeriodicCondition: reads engine.epoch
CallEpochPeriodicCondition ==
    /\ condKind = "EpochPeriodicCondition"
    /\ Len(condCalls) < MaxCondCalls
    /\ condCalls' = Append(condCalls, [counter |-> LiveCounter,
                                       result |-> EnginePeriodicConditionCall(epoch[1], condFreq)])
    /\ UNCHANGED <<condKind, condFreq, condStep, engineVars>>
    /\ CondUnchangedLoop

\* condition() on an IterationPeriodicCondition: reads engine.iteration
CallIterationPeriodicCondition ==
    /\ condKind = "IterationPeriodicCondition"
    /\ Len(condCalls) < MaxCondCalls
    /\ condCalls' = Append(condCalls, [counter |-> LiveCounter,
                                       result |-> EnginePeriodicConditionCall(iteration[1], condFreq)])
    /\ UNCHANGED <<condKind, condFreq, condStep, engineVars>>
    /\ CondUnchangedLoop

\* engine.increment_epoch() by an external caller
EngineIncrementEpoch ==
    /\ condKind \in CondKinds
    /\ epoch[1] < MaxCounter
    /\ epoch' = [epoch EXCEPT ![1] = @ + 1]
    /\ UNCHANGED <<iteration, condVars>>
    /\ CondUnchangedLoop

\* engine.increment_iteration() by an external caller
EngineIncrementIteration ==
    /\ condKind \in CondKinds
    /\ iteration[1] < MaxCounter
    /\ iteration' = [iteration EXCEPT ![1] = @ + 1]
    /\ UNCHANGED <<epoch, condVars>>
    /\ CondUnchangedLoop

\* a condition of any class and frequency on a fresh engine; no train() runs
CondSpecInit ==
    /\ LoopInit({{}}, {"vanilla"}, {FALSE}, {[e \in EngineEvents |-> <<>>]},
                {[n \in HistoryNames |-> NoHistory]}, {{1}})
    /\ condKind \in CondKinds
    /\ condFreq \in 1..MaxFreq
    /\ condStep = 0
    /\ condCalls = <<>>
    /\ CompIdle

CondNext ==
    \/ CallPeriodicCondition
    \/ CallEpochPeriodicCondition
    \/ CallIterationPeriodicCondition
    \/ EngineIncrementEpoch
    \/ EngineIncrementIteration

CondSpec == CondSpecInit /\ [][CondNext]_vars

\* -------------------------------------------------------------- event bus
NumInstances == 2
MaxHandlerFreq == 2
MaxSubs == 3
MaxBusCounter == 1

MonitorClasses == {"EpochLRMonitor", "IterationLRMonitor", "EpochCudaMemoryMonitor",
                   "IterationCudaMemoryMonitor"}
HandlerClasses == MonitorClasses \cup {"ModelParameterAnalyzer"}
\* the handler objects of the class under test
Instances == 1..NumInstances

\* self._event / self._events as set by the default arguments of __init__
HandlerEvents(cls) ==
    CASE cls = "EpochLRMonitor" -> <<TRAIN_EPOCH_STARTED>>
      [] cls = "IterationLRMonitor" -> <<TRAIN_ITERATION_STARTED>>
      [] cls = "EpochCudaMemoryMonitor" -> <<EPOCH_COMPLETED>>
      [] cls = "IterationCudaMemoryMonitor" -> <<TRAIN_ITERATION_COMPLETED>>
      [] OTHER -> <<STARTED, TRAIN_COMPLETED>>

\* the condition built by attach: its class and freq, which define its equality
HandlerCondition(cls, freq) ==
    [cls |-> IF cls \in {"EpochLRMonitor", "EpochCudaMemoryMonitor"}
             THEN "EpochPeriodicCondition" ELSE "IterationPeriodicCondition",
     freq |-> freq]

\* event handlers are values: two of them are equal iff they wrap the same bound
\* method (the same handler object) and equal conditions
ConditionalEventHandler(owner, condition) ==
    [kind |-> "ConditionalEventHandler", handler |-> owner, condition |-> condition]
VanillaEventHandler(owner) ==
    [kind |-> "VanillaEventHandler", handler |-> owner, condition |-> NoEventHandler.condition]

\* the event handler that attach() of handler object i builds
EventHandlerOf(cls, i, freq) ==
    IF cls \in MonitorClasses THEN ConditionalEventHandler(i, HandlerCondition(cls, freq))
    ELSE VanillaEventHandler(i)

\* engine.has_event_handler(event_handler, event)
has_event_handler(s, h, e) == \E i \in 1..Len(s[e]) : s[e][i] = h

\* engine.add_event_handler(event, event_handler)
add_event_handler(s, e, h) == [s EXCEPT ![e] = Append(@, h)]

\* faulty variant: subscribes without looking at the subscriptions
add_unique_event_handler_AlwaysAdd(s, e, h) == add_event_handler(s, e, h)

\* add_unique_event_handler(engine, event, event_handler)
add_unique_event_handler(s, e, h) ==
    IF has_event_handler(s, h, e) THEN s ELSE add_event_handler(s, e, h)

\* attach of EpochLRMonitor, IterationLRMonitor, EpochCudaMemoryMonitor and
\* IterationCudaMemoryMonitor
MonitorAttach(s, cls, i, freq) ==
    add_unique_event_handler(s, HandlerEvents(cls)[1],
                             ConditionalEventHandler(i, HandlerCondition(cls, freq)))

\* ModelParameterAnalyzer.attach: one engine.add_event_handler per event
RECURSIVE ModelParameterAnalyzerAttach(_, _, _)
ModelParameterAnalyzerAttach(s, events, i) ==
    IF events = <<>> THEN s
    ELSE ModelParameterAnalyzerAttach(add_event_handler(s, Head(events), VanillaEventHandler(i)),
                                      Tail(events), i)

\* handler.attach(engine) of handler object i
HandlerAttach(s, cls, i, freq) ==
    IF cls \in MonitorClasses THEN MonitorAttach(s, cls, i, freq)
    ELSE ModelParameterAnalyzerAttach(s, HandlerEvents(cls), i)

\* setup_and_attach_handlers(engine, handlers) on a list of handler objects
RECURSIVE setup_and_attach_handlers(_, _, _, _)
setup_and_attach_handlers(s, cls, freq, hs) ==
    IF hs = <<>> THEN s
    ELSE setup_and_attach_handlers(HandlerAttach(s, cls, Head(hs), freq), cls, freq, Tail(hs))

\* invoking an event handler: TRUE iff the wrapped callback runs
EventHandlerRuns(h, ep, it) ==
    CASE h.kind = "VanillaEventHandler" -> TRUE
      [] h.condition.cls = "EpochPeriodicCondition" ->
            EnginePeriodicConditionCall(ep, h.condition.freq)
      [] OTHER -> EnginePeriodicConditionCall(it, h.condition.freq)

\* engine.fire_event(event): the owners of the callbacks that run, in order
RECURSIVE FiredCallbacks(_, _, _)
FiredCallbacks(hs, ep, it) ==
    IF hs = <<>> THEN <<>>
    ELSE (IF EventHandlerRuns(Head(hs), ep, it) THEN <<Head(hs).handler>> ELSE <<>>)
         \o FiredCallbacks(Tail(hs), ep, it)

BusUnchangedOthers ==
    UNCHANGED <<handlerCls, handlerFreq, loopVars, condVars, meterVars, redVars,
                histVars, cmpVars, ctorVars, timerVars, seedVars, cacheVars, backendVars,
                samplerVars>>

\* the event handlers and events used in direct calls of add_unique_event_handler
EventHandlers == {EventHandlerOf(handlerCls, i, handlerFreq) : i \in Instances}
DirectEvents == {TRAIN_EPOCH_STARTED, TRAIN_COMPLETED}

\* a call add_unique_event_handler(engine, e, h)
AddUniqueEventHandler(e, h) ==
    /\ handlerCls \in HandlerClasses
    /\ Len(subs[e]) < MaxSubs
    /\ subs' = add_unique_event_handler(subs, e, h)
    /\ busLast' = [op |-> "add_unique_event_handler", event |-> e, handler |-> h,
                   had |-> has_event_handler(subs, h, e), before |-> subs, runs |-> <<>>]
    /\ UNCHANGED engineVars
    /\ BusUnchangedOthers

\* a call handler.attach(engine) on handler object i
Attach(i) ==
    /\ handlerCls \in HandlerClasses
    /\ \A e \in BusEvents : Len(subs[e]) < MaxSubs
    /\ subs' = HandlerAttach(subs, handlerCls, i, handlerFreq)
    /\ busLast' = [NoBusOp EXCEPT !.op = "attach",
                                  !.handler = EventHandlerOf(handlerCls, i, handlerFreq),
                                  !.before = subs]
    /\ UNCHANGED engineVars
    /\ BusUnchangedOthers

\* the lists of handler objects given to setup_and_attach_handlers
HandlerLists == {<<i>> : i \in Instances} \cup {<<i, j>> : i, j \in Instances}

\* a call setup_and_attach_handlers(engine, hs)
SetupAndAttachHandlers(hs) ==
    /\ handlerCls \in HandlerClasses
    /\ \A e \in BusEvents : Len(subs[e]) + Len(hs) <= MaxSubs
    /\ subs' = setup_and_attach_handlers(subs, handlerCls, handlerFreq, hs)
    /\ busLast' = [NoBusOp EXCEPT !.op = "setup_and_attach_handlers", !.before = subs]
    /\ UNCHANGED engineVars
    /\ BusUnchangedOthers

\* engine.fire_event(e)
FireEvent(e) ==
    /\ handlerCls \in HandlerClasses
    /\ busLast' = [NoBusOp EXCEPT !.op = "fire_event", !.event = e, !.before = subs,
                                  !.runs = FiredCallbacks(subs[e], epoch[1], iteration[1])]
    /\ UNCHANGED <<subs, engineVars>>
    /\ BusUnchangedOthers

\* engine.increment_epoch() between firings
BusIncrementEpoch ==
    /\ handlerCls \in HandlerClasses
    /\ epoch[1] < MaxBusCounter
    /\ epoch' = [epoch EXCEPT ![1] = @ + 1]
    /\ UNCHANGED <<iteration, subs, busLast>>
    /\ BusUnchangedOthers

\* engine.increment_iteration() between firings
BusIncrementIteration ==
    /\ handlerCls \in HandlerClasses
    /\ iteration[1] < MaxBusCounter
    /\ iteration' = [iteration EXCEPT ![1] = @ + 1]
    /\ UNCHANGED <<epoch, subs, busLast>>
    /\ BusUnchangedOthers

\* a fresh engine and the handler objects of one class; no train() runs
BusInit ==
    /\ LoopInit({{}}, {"vanilla"}, {FALSE}, {[e \in EngineEvents |-> <<>>]},
                {[n \in HistoryNames |-> NoHistory]}, {{1}})
    /\ CondInit
    /\ handlerCls \in HandlerClasses
    /\ handlerFreq \in (IF handlerCls \in MonitorClasses THEN 1..MaxHandlerFreq ELSE {1})
    /\ subs = NoSubscriptions
    /\ busLast = NoBusOp
    /\ MeterIdle
    /\ RedIdle
    /\ HistIdle
    /\ CmpIdle
    /\ CtorIdle
    /\ TimerIdle
    /\ SeedIdle
    /\ CacheIdle
    /\ BackendIdle
    /\ SamplerIdle

BusNext == \E e \in DirectEvents : \E h \in EventHandlers : AddUniqueEventHandler(e, h)

\* direct calls of add_unique_event_handler on a fresh engine
BusSpec == BusInit /\ [][BusNext]_vars

AttachNext ==
    \/ \E i \in Instances : Attach(i)
    \/ \E hs \in HandlerLists : SetupAndAttachHandlers(hs)
    \/ \E e \in BusEvents : FireEvent(e)
    \/ BusIncrementEpoch
    \/ BusIncrementIteration

\* repeated attach and setup calls on one engine, with firings in between
AttachSpec == BusInit /\ [][AttachNext]_vars

\* ------------------------------------------------- operations on the meters
MeterUnchangedOthers ==
    UNCHANGED <<meterType, loopVars, engineVars, condVars, busVars, redVars,
                histVars, cmpVars, ctorVars, timerVars, seedVars, cacheVars, backendVars,
                samplerVars>>
InBounds(m) == m.count <= MaxHeld /\ Len(m.values) <= MaxHeld
MergedInBounds(m) == m.count <= MaxMerged /\ Len(m.values) <= MaxMerged

\* meters[i].update(x)
MeterUpdate(i, x) ==
    /\ meterType \in MeterTypes
    /\ InBounds(meter_update(meterType, meters[i], x))
    /\ meters' = [meters EXCEPT ![i] = meter_update(meterType, @, x)]
    /\ obs' = [obs EXCEPT ![i] = ObsAfterUpdate(meterType, meters[i], @, x)]
    /\ meterLast' = [NoMeterOp EXCEPT !.op = "update", !.meter = i]
    /\ MeterUnchangedOthers

\* meters[i].reset()
MeterReset(i) ==
    /\ meterType \in MeterTypes
    /\ meters' = [meters EXCEPT ![i] = meter_reset(meterType, @)]
    /\ obs' = [obs EXCEPT ![i] = EmptyObs]
    /\ meterLast' = [NoMeterOp EXCEPT !.op = "reset", !.meter = i]
    /\ MeterUnchangedOthers

\* the argument lists of merge and merge_ on meter i
MergeArgs(ids, i) ==
    {<<j>> : j \in ids \ {i}} \cup {<<j, k>> : j, k \in ids \ {i}}
Others(js) == [k \in DOMAIN js |-> meters[js[k]]]

\* meters[i].merge_([meters[j] for j in js])
MeterMergeInPlace(i, js) ==
    /\ meterType \in MergeableMeterTypes
    /\ meters' = [meters EXCEPT ![i] = meter_merge_(meterType, @, Others(js))]
    /\ obs' = [obs EXCEPT ![i] = AddAllObs(obs, @, js)]
    /\ meterLast' = [NoMeterOp EXCEPT !.op = "merge_", !.meter = i, !.args = js]
    /\ MeterUnchangedOthers

\* meters[i].merge([meters[j] for j in js])
MeterMerge(i, js) ==
    /\ meterType \in MergeableMeterTypes
    /\ LET r == meter_merge(meterType, meters[i], Others(js))
       IN /\ meters' = [meters EXCEPT ![i] = r.self]
          /\ meterLast' = [NoMeterOp EXCEPT !.op = "merge", !.meter = i, !.args = js,
                                            !.out = r.out]
    /\ UNCHANGED obs
    /\ MeterUnchangedOthers

\* meters[i].load_state_dict(meters[j].state_dict())
MeterLoadStateDict(i, j) ==
    /\ meterType \in MeterTypes
    /\ meters' = [meters EXCEPT ![i] = load_state_dict(meterType, @,
                                                       state_dict(meterType, meters[j]))]
    /\ obs' = [obs EXCEPT ![i] = obs[j]]
    /\ meterLast' = [NoMeterOp EXCEPT !.op = "load_state_dict", !.meter = i, !.args = <<j>>]
    /\ MeterUnchangedOthers

\* a call of read accessor a on meters[i]
MeterRead(i, a) ==
    /\ meterType \in MeterTypes
    /\ meterLast' = [NoMeterOp EXCEPT !.op = "read", !.meter = i, !.accessor = a,
                                      !.result = meter_read(meterType, meters[i], a)]
    /\ UNCHANGED <<meters, obs>>
    /\ MeterUnchangedOthers

\* the two meters X and Y of the checkpoint scenarios
CheckpointIds == {1, 2}

\* fresh meters of one class; the window of a MovingAverage is chosen per object
MeterInit ==
    /\ LoopInit({{}}, {"vanilla"}, {FALSE}, {[e \in EngineEvents |-> <<>>]},
                {[n \in HistoryNames |-> NoHistory]}, {{1}})
    /\ CondInit
    /\ BusIdle
    /\ meterType \in MeterTypes
    /\ \E ws \in [CheckpointIds -> 1..MaxWindowSize] :
          meters = [i \in MeterIds |->
                       [EmptyMeter EXCEPT !.window_size =
                           IF meterType = "MovingAverage" /\ i \in CheckpointIds
                           THEN ws[i] ELSE 1]]
    /\ obs = [i \in MeterIds |-> EmptyObs]
    /\ meterLast = NoMeterOp
    /\ RedIdle
    /\ HistIdle
    /\ CmpIdle
    /\ CtorIdle
    /\ TimerIdle
    /\ SeedIdle
    /\ CacheIdle
    /\ BackendIdle
    /\ SamplerIdle

MeterNext ==
    \/ \E i \in CheckpointIds : \E x \in MeterInputs(meterType) : MeterUpdate(i, x)
    \/ \E i \in CheckpointIds : MeterReset(i)
    \/ \E i \in CheckpointIds : \E js \in MergeArgs(CheckpointIds, i) :
          InBounds(meter_merge_(meterType, meters[i], Others(js))) /\ MeterMergeInPlace(i, js)
    \/ \E i, j \in CheckpointIds : MeterLoadStateDict(i, j)
    \/ \E i \in CheckpointIds : \E a \in Accessors(meterType) : MeterRead(i, a)

\* update, reset, merge_, load_state_dict and the read accessors on two meters
MeterSpec == MeterInit /\ [][MeterNext]_vars

\* the update that builds a meter of the merge and all_reduce scenarios
MergeSamples(type) ==
    IF type = "AverageMeter" THEN MeterInputs(type) ELSE {<<v>> : v \in MeterValues}

\* each meter is empty or was updated once
SampleMeters(ids, samples) ==
    \E xs \in [ids -> samples \cup {<<>>}] :
       /\ meters = [i \in MeterIds |->
                       IF i \in ids /\ xs[i] # <<>>
                       THEN meter_update(meterType, EmptyMeter, xs[i]) ELSE EmptyMeter]
       /\ obs = [i \in MeterIds |->
                    IF i \in ids /\ xs[i] # <<>> THEN InputObs(meterType, xs[i]) ELSE EmptyObs]

MergeInit ==
    /\ LoopInit({{}}, {"vanilla"}, {FALSE}, {[e \in EngineEvents |-> <<>>]},
                {[n \in HistoryNames |-> NoHistory]}, {{1}})
    /\ CondInit
    /\ BusIdle
    /\ meterType \in MergeableMeterTypes
    /\ SampleMeters(MeterIds, MergeSamples(meterType))
    /\ meterLast = NoMeterOp
    /\ RedIdle
    /\ HistIdle
    /\ CmpIdle
    /\ CtorIdle
    /\ TimerIdle
    /\ SeedIdle
    /\ CacheIdle
    /\ BackendIdle
    /\ SamplerIdle

MergeNext ==
    \/ \E i \in MeterIds : \E js \in MergeArgs(MeterIds, i) :
          MergedInBounds(meter_merge_(meterType, meters[i], Others(js)))
          /\ MeterMergeInPlace(i, js)
    \/ \E i \in MeterIds : \E js \in MergeArgs(MeterIds, i) : MeterMerge(i, js)

\* merge and merge_ on three meters, in any order and grouping
MergeSpec == MergeInit /\ [][MergeNext]_vars

\* ------------------------------------------------ all_reduce on N workers
\* worker w holds meters[w]
PlanOf(w) == AllReducePlan(meterType, meters[w])
\* the number of sync_reduce calls of worker w that have returned
Reduced(w) == Len(redOut[w]) * Len(PlanOf(w)) + Len(redGot[w])
InCollective(w) == Len(redPosted[w]) > Reduced(w)
\* every worker has entered the collective that w is in, with the same operation
Paired(w) ==
    LET k == Len(redPosted[w])
    IN \A v \in Workers : Len(redPosted[v]) >= k /\ redPosted[v][k].op = redPosted[w][k].op

ReduceUnchangedOthers ==
    UNCHANGED <<meterVars, loopVars, engineVars, condVars, busVars, histVars, cmpVars,
                ctorVars, timerVars, seedVars, cacheVars, backendVars,
                samplerVars>>

\* worker w calls all_reduce() and enters its first sync_reduce
ReduceCall(w) ==
    /\ meterType \in ScalarMeterTypes
    /\ ~InCollective(w)
    /\ Len(redOut[w]) < MaxReduceCalls
    /\ redPosted' = [redPosted EXCEPT ![w] = Append(@, PlanOf(w)[1])]
    /\ UNCHANGED <<redGot, redOut>>
    /\ ReduceUnchangedOthers

\* the sync_reduce that worker w is in returns; w enters the next one, or
\* all_reduce() returns the reduced meter
ReduceAdvance(w) ==
    /\ meterType \in ScalarMeterTypes
    /\ InCollective(w)
    /\ Paired(w)
    /\ LET k == Len(redPosted[w])
           got == Append(redGot[w],
                         ReduceValues(redPosted[w][k].op,
                                      [v \in Workers |-> redPosted[v][k].value]))
       IN IF Len(got) < Len(PlanOf(w))
          THEN /\ redGot' = [redGot EXCEPT ![w] = got]
               /\ redPosted' = [redPosted EXCEPT ![w] = Append(@, PlanOf(w)[Len(got) + 1])]
               /\ UNCHANGED redOut
          ELSE /\ redGot' = [redGot EXCEPT ![w] = <<>>]
               /\ redOut' = [redOut EXCEPT ![w] = Append(@, AllReduceResult(meterType, got))]
               /\ UNCHANGED redPosted
    /\ ReduceUnchangedOthers

\* the update that builds the local meter of a worker
ReduceSamples(type) ==
    IF type = "AverageMeter" THEN {<<v, 1>> : v \in MeterValues} ELSE {<<v>> : v \in MeterValues}

\* every worker holds a meter of the same class, empty or updated once
ReduceInit ==
    /\ LoopInit({{}}, {"vanilla"}, {FALSE}, {[e \in EngineEvents |-> <<>>]},
                {[n \in HistoryNames |-> NoHistory]}, {{1}})
    /\ CondInit
    /\ BusIdle
    /\ meterType \in ScalarMeterTypes
    /\ SampleMeters(Workers, ReduceSamples(meterType))
    /\ meterLast = NoMeterOp
    /\ RedIdle
    /\ HistIdle
    /\ CmpIdle
    /\ CtorIdle
    /\ TimerIdle
    /\ SeedIdle
    /\ CacheIdle
    /\ BackendIdle
    /\ SamplerIdle

ReduceNext == \E w \in Workers : ReduceCall(w) \/ ReduceAdvance(w)

\* MaxReduceCalls calls of all_reduce() by every worker
ReduceSpec == ReduceInit /\ [][ReduceNext]_vars

\* ------------------------------------ AverageMeter with any int num_examples
NumExamples == (0 - 1)..MaxNumExamples
CountInRange(m) ==
    /\ m.count <= MaxHeld /\ m.count >= 0 - MaxHeld
    /\ m.total <= MaxHeld * MaxMeterValue /\ m.total >= 0 - MaxHeld * MaxMeterValue

\* meters[i].update(value, num_examples) on an AverageMeter
AverageUpdate(i, value, num_examples) ==
    /\ meterType = "AverageMeter"
    /\ CountInRange(AverageMeter_update(meters[i], value, num_examples))
    /\ meters' = [meters EXCEPT ![i] = AverageMeter_update(@, value, num_examples)]
    /\ meterLast' = [NoMeterOp EXCEPT !.op = "update", !.meter = i]
    /\ UNCHANGED obs
    /\ MeterUnchangedOthers

AverageInit ==
    /\ MeterInit
    /\ meterType = "AverageMeter"

AverageNext ==
    \/ \E i \in CheckpointIds : \E value \in MeterValues : \E num_examples \in NumExamples :
          AverageUpdate(i, value, num_examples)
    \/ \E i \in CheckpointIds : MeterReset(i)
    \/ \E i \in CheckpointIds : \E js \in MergeArgs(CheckpointIds, i) :
          /\ CountInRange(meter_merge_(meterType, meters[i], Others(js)))
          /\ MeterMergeInPlace(i, js)

\* update, merge_ and reset on two AverageMeter objects, num_examples of either sign
AverageSpec == AverageInit /\ [][AverageNext]_vars

\* the operations of MeterSpec on two AverageMeter objects
AverageMeterSpec == AverageInit /\ [][MeterNext]_vars

\* ------------------------------------------- operations on a GenericHistory
HistUnchangedOthers ==
    UNCHANGED <<loopVars, engineVars, condVars, busVars, meterVars, redVars, cmpVars,
                ctorVars, timerVars, seedVars, cacheVars, backendVars,
                samplerVars>>

\* hist.add_value(value, step)
HistAddValue(value, step) ==
    /\ hist.raised = "none"
    /\ Len(histAdded) < MaxElements + MaxAdded
    /\ hist' = add_value(hist, value, step)
    /\ histAdded' = Append(histAdded, <<step, value>>)
    /\ histLast' = [op |-> "add_value", result |-> [raised |-> "none", value |-> <<>>]]
    /\ HistUnchangedOthers

\* hist.get_last_value()
HistGetLastValue ==
    /\ hist.raised = "none"
    /\ histLast.op # "get_last_value"
    /\ histLast' = [op |-> "get_last_value", result |-> get_last_value(hist)]
    /\ UNCHANGED <<hist, histAdded>>
    /\ HistUnchangedOthers

\* GenericHistory(name, elements, max_size) for every max_size and initial elements
HistInit ==
    /\ LoopInit({{}}, {"vanilla"}, {FALSE}, {[e \in EngineEvents |-> <<>>]},
                {[n \in HistoryNames |-> NoHistory]}, {{1}})
    /\ CondInit
    /\ BusIdle
    /\ MeterIdle
    /\ RedIdle
    /\ CmpIdle
    /\ CtorIdle
    /\ TimerIdle
    /\ SeedIdle
    /\ CacheIdle
    /\ BackendIdle
    /\ SamplerIdle
    /\ \E max_size \in 0..MaxHistSize : \E elements \in SeqsUpTo(HistPairs, MaxElements) :
          /\ hist = GenericHistory_init(elements, max_size)
          /\ histAdded = elements
    /\ histLast = NoHistOp

HistNext ==
    \/ \E value \in HistValues : \E step \in HistSteps : HistAddValue(value, step)
    \/ HistGetLastValue

HistSpec == HistInit /\ [][HistNext]_vars

\* ----------------------------------------------- best value of a comparator
\* if comparator.is_better(best, v): best = v
CmpObserve(v) ==
    /\ Len(cmpScores) < MaxScores
    /\ cmpScores' = Append(cmpScores, v)
    /\ IF is_better(cmpKind, cmpBest, v)
       THEN cmpBest' = v /\ cmpBestAt' = Len(cmpScores) + 1
       ELSE UNCHANGED <<cmpBest, cmpBestAt>>
    /\ UNCHANGED <<cmpKind, loopVars, engineVars, condVars, busVars, meterVars, redVars,
                   histVars, ctorVars, timerVars, seedVars, cacheVars, backendVars,
                samplerVars>>

\* a comparator and its initial best value
CmpInit ==
    /\ LoopInit({{}}, {"vanilla"}, {FALSE}, {[e \in EngineEvents |-> <<>>]},
                {[n \in HistoryNames |-> NoHistory]}, {{1}})
    /\ CondInit
    /\ BusIdle
    /\ MeterIdle
    /\ RedIdle
    /\ HistIdle
    /\ CtorIdle
    /\ TimerIdle
    /\ SeedIdle
    /\ CacheIdle
    /\ BackendIdle
    /\ SamplerIdle
    /\ cmpKind \in ComparatorKinds
    /\ cmpBest = get_initial_best_value(cmpKind)
    /\ cmpBestAt = 0
    /\ cmpScores = <<>>

CmpNext == \E v \in Scores : CmpObserve(v)

CmpSpec == CmpInit /\ [][CmpNext]_vars

\* ---------------------------------------- operations on a BatchLoadingTimer
TimerUnchangedOthers ==
    UNCHANGED <<loopVars, engineVars, condVars, busVars, meterVars, redVars, histVars,
                cmpVars, ctorVars, seedVars, cacheVars, backendVars,
                samplerVars>>

\* iter(timer): a new generator; the body of __iter__ starts at the first next()
TimerIter ==
    /\ timerIters < MaxTimerIters
    /\ timerGen' = NewGenerator
    /\ timerIters' = timerIters + 1
    /\ timerLast' = [NoTimerOp EXCEPT !.op = "iter"]
    /\ UNCHANGED <<timer, clock>>
    /\ TimerUnchangedOthers

\* next(generator): runs __iter__ up to its next yield or to its end; every
\* sync_perf_counter() call reads a later time than the one before
TimerNextBatch ==
    /\ timerGen.state \in {"created", "suspended"}
    /\ LET t1 == IF timerGen.state = "created"
                 THEN [timer EXCEPT !.start_time = clock]
                 ELSE timer
           tic == clock
           more == timerGen.index < Len(timer.batch_loader)
       IN IF more
          THEN /\ timer' = [t1 EXCEPT !.count = @ + 1, !.total = @ + (clock + 1 - tic)]
               /\ timerGen' = [timerGen EXCEPT
                                  !.state = "suspended",
                                  !.index = @ + 1,
                                  !.yielded = Append(@, timer.batch_loader[timerGen.index + 1]),
                                  !.started_at = IF timerGen.state = "created"
                                                 THEN clock ELSE @]
          ELSE /\ timer' = [t1 EXCEPT !.end_time = clock + 1]
               /\ timerGen' = [timerGen EXCEPT
                                  !.state = "done",
                                  !.started_at = IF timerGen.state = "created"
                                                 THEN clock ELSE @,
                                  !.ended_at = clock + 1]
    /\ clock' = clock + 2
    /\ timerLast' = [NoTimerOp EXCEPT !.op = "next"]
    /\ UNCHANGED timerIters
    /\ TimerUnchangedOthers

\* the consumer works on the batch it was given
TimerTick ==
    /\ timerGen.state = "suspended"
    /\ clock < MaxClock
    /\ clock' = clock + 1
    /\ UNCHANGED <<timer, timerGen, timerIters, timerLast>>
    /\ TimerUnchangedOthers

\* timer.get_stats()
TimerGetStats ==
    /\ timerLast.op # "get_stats"
    /\ timerLast' = [NoTimerOp EXCEPT !.op = "get_stats", !.stats = get_stats(timer)]
    /\ UNCHANGED <<timer, timerGen, timerIters, clock>>
    /\ TimerUnchangedOthers

\* timer.log_stats(engine)
TimerLogStats(engine) ==
    /\ timerLast.op # "log_stats"
    /\ timerLast' = [op |-> "log_stats", engine |-> engine,
                     stats |-> get_stats(timer), calls |-> log_stats_calls(timer, engine)]
    /\ UNCHANGED <<timer, timerGen, timerIters, clock>>
    /\ TimerUnchangedOthers

\* a timer around a batch loader of n batches, not iterated yet
TimerInit ==
    /\ LoopInit({{}}, {"vanilla"}, {FALSE}, {[e \in EngineEvents |-> <<>>]},
                {[n \in HistoryNames |-> NoHistory]}, {{1}})
    /\ CondInit
    /\ BusIdle
    /\ MeterIdle
    /\ RedIdle
    /\ HistIdle
    /\ CmpIdle
    /\ CtorIdle
    /\ \E n \in 0..MaxTimerBatches : \E ep \in 0..MaxTimerEpoch :
          timer = BatchLoadingTimer_init(n, ep, TimerPrefix)
    /\ timerGen = NoGenerator
    /\ timerIters = 0
    /\ clock = 0
    /\ timerLast = NoTimerOp
    /\ SeedIdle
    /\ CacheIdle
    /\ BackendIdle
    /\ SamplerIdle

TimerNext ==
    \/ TimerIter
    \/ TimerNextBatch
    \/ TimerTick
    \/ TimerGetStats
    \/ \E engine \in BOOLEAN : TimerLogStats(engine)

TimerSpec == TimerInit /\ [][TimerNext]_vars

\* -------------------------------------------- reseeding in _prepare_training
SeedUnchangedOthers ==
    UNCHANGED <<loopVars, iteration, condVars, busVars, meterVars, redVars, histVars,
                cmpVars, ctorVars, timerVars, cacheVars, backendVars, samplerVars>>

\* worker w runs the reseeding of _prepare_training at the current epoch
Reseed(w) ==
    /\ LET seed == PrepareSeed(seedCfg, seedCfg.random_seed, epoch[w], seedCfg.max_epochs,
                               get_rank(w))
       IN /\ seedLast' = [seedLast EXCEPT ![w] = [set |-> TRUE, epoch |-> epoch[w],
                                                  seed |-> seed]]
          /\ seedStable' = (seedStable /\ (seedLast[w].set /\ seedLast[w].epoch = epoch[w]
                                              => seedLast[w].seed = seed))
    /\ UNCHANGED <<seedCfg, epoch>>
    /\ SeedUnchangedOthers

\* the engines of all the workers move to epoch e: the next epoch, or the
\* epoch of a checkpoint when the run is resumed
SeedSetEpoch(e) ==
    /\ \E w \in Workers : epoch[w] # e
    /\ epoch' = [w \in Workers |-> e]
    /\ UNCHANGED <<seedCfg, seedLast, seedStable>>
    /\ SeedUnchangedOthers

\* engines with the same random_seed and max_epochs on every worker
SeedInit ==
    /\ LoopInit({{}}, {"vanilla"}, {FALSE}, {[e \in EngineEvents |-> <<>>]},
                {[n \in HistoryNames |-> NoHistory]}, {{1}})
    /\ CondInit
    /\ BusIdle
    /\ MeterIdle
    /\ RedIdle
    /\ HistIdle
    /\ CmpIdle
    /\ CtorIdle
    /\ TimerIdle
    /\ seedCfg \in [random_seed : 0..MaxRandomSeed, max_epochs : 0..MaxEpochs,
                    mul : RngMultipliers, add : RngIncrements]
    /\ seedLast = [w \in Workers |-> NoSeed]
    /\ seedStable = TRUE
    /\ CacheIdle
    /\ BackendIdle
    /\ SamplerIdle

SeedNext ==
    \/ \E w \in Workers : Reseed(w)
    \/ \E e \in InitialCounter..MaxEpochs : SeedSetEpoch(e)

SeedSpec == SeedInit /\ [][SeedNext]_vars

\* ------------------------------------------- calls of OneCacheDataCreator.create
CacheUnchangedOthers ==
    UNCHANGED <<loopVars, engineVars, condVars, busVars, meterVars, redVars, histVars,
                cmpVars, ctorVars, timerVars, seedVars, backendVars, samplerVars>>

\* data_creator.create(engine) on the caching creator
CacheCreate(engine, outcome, copyable) ==
    /\ Len(createCalls) < MaxCreateCalls
    /\ LET r == OneCacheDataCreator_create(oneCache, engine, outcome, copyable, heap)
       IN /\ oneCache' = r.self
          /\ createCalls' = Append(createCalls, engine)
          /\ wrappedCalls' = IF r.invoked
                             THEN Append(wrappedCalls,
                                         [engine |-> engine, ok |-> r.raised = "none",
                                          call |-> Len(createCalls) + 1])
                             ELSE wrappedCalls
          /\ heap' = heap + r.allocated
          /\ cacheLast' = [op |-> "create", engine |-> engine,
                           cached_before |-> oneCache.is_cache_created,
                           invoked |-> r.invoked, raised |-> r.raised, data |-> r.data,
                           warned |-> r.warned]
    /\ CacheUnchangedOthers

CacheInit ==
    /\ LoopInit({{}}, {"vanilla"}, {FALSE}, {[e \in EngineEvents |-> <<>>]},
                {[n \in HistoryNames |-> NoHistory]}, {{1}})
    /\ CondInit
    /\ BusIdle
    /\ MeterIdle
    /\ RedIdle
    /\ HistIdle
    /\ CmpIdle
    /\ CtorIdle
    /\ TimerIdle
    /\ SeedIdle
    /\ BackendIdle
    /\ SamplerIdle
    /\ \E deepcopy \in BOOLEAN : oneCache = OneCacheDataCreator_init(deepcopy)
    /\ wrappedCalls = <<>>
    /\ createCalls = <<>>
    /\ cacheLast = NoCacheOp
    /\ heap = 1

CacheNext ==
    \E engine \in CacheEngines : \E outcome \in {"ok", "raise"} : \E copyable \in BOOLEAN :
       CacheCreate(engine, outcome, copyable)

\* repeated create calls on one OneCacheDataCreator
CacheSpec == CacheInit /\ [][CacheNext]_vars

\* ------------------------------------------- with-blocks on a backend manager
BackendUnchangedOthers ==
    UNCHANGED <<loopVars, engineVars, condVars, busVars, meterVars, redVars, histVars,
                cmpVars, ctorVars, timerVars, seedVars, cacheVars, samplerVars>>

\* `with mgr:` is entered; when __enter__ raises, the with statement does not
\* call __exit__ and the exception unwinds the enclosing blocks
BackendEnter ==
    /\ ~withCtl.exc
    /\ Len(mgr.state) < MaxDepth
    /\ LET r == Backend_enter(mgr, backend)
       IN /\ mgr' = r.self
          /\ backend' = r.backend
          /\ withCtl' = IF r.raised = "none"
                        THEN [withCtl EXCEPT !.depth = @ + 1]
                        ELSE [withCtl EXCEPT !.exc = withCtl.depth > 0]
          /\ backendLast' = [op |-> "enter", raised |-> r.raised]
    /\ BackendUnchangedOthers

\* the innermost with-block ends, normally or by an exception of its body
BackendExit(exc_type) ==
    /\ withCtl.depth > 0
    /\ withCtl.exc => exc_type # "none"
    /\ LET r == Backend_exit(mgr, backend)
       IN /\ mgr' = r.self
          /\ backend' = r.backend
          /\ withCtl' = [depth |-> withCtl.depth - 1,
                         exc |-> exc_type # "none" /\ withCtl.depth > 1]
          /\ backendLast' = [op |-> "exit", raised |-> r.raised]
    /\ BackendUnchangedOthers

BackendInit ==
    /\ LoopInit({{}}, {"vanilla"}, {FALSE}, {[e \in EngineEvents |-> <<>>]},
                {[n \in HistoryNames |-> NoHistory]}, {{1}})
    /\ CondInit
    /\ BusIdle
    /\ MeterIdle
    /\ RedIdle
    /\ HistIdle
    /\ CmpIdle
    /\ CtorIdle
    /\ TimerIdle
    /\ SeedIdle
    /\ CacheIdle
    /\ SamplerIdle
    /\ \E cls \in BackendClasses : \E cfg \in BackendArgs(cls) :
          /\ mgr = Backend_init(cls, cfg)
          /\ backend = DefaultBackend(cls)
    /\ withCtl = NoWith
    /\ backendLast = NoBackendOp

BackendNext ==
    \/ BackendEnter
    \/ \E exc_type \in {"none", "Exception"} : BackendExit(exc_type)

\* nested with-blocks on one manager object
BackendSpec == BackendInit /\ [][BackendNext]_vars

\* -------------------------------------- iteration of a ReproducibleBatchSampler
SamplerUnchangedOthers ==
    UNCHANGED <<sampler, samplerArgs, loopVars, engineVars, condVars, busVars, meterVars,
                redVars, histVars, cmpVars, ctorVars, timerVars, seedVars, cacheVars,
                backendVars>>

\* iter(sampler)
SamplerIter ==
    /\ sampler.raised = "none"
    /\ samplerIter' = [active |-> TRUE, done |-> FALSE, yielded |-> <<>>,
                       rest |-> ReproducibleBatchSampler_iter(sampler)]
    /\ samplerLast' = [op |-> "iter", value |-> 0]
    /\ SamplerUnchangedOthers

\* next() on the running iterator: one batch, or StopIteration
SamplerNextBatch ==
    /\ samplerIter.active
    /\ IF samplerIter.rest = <<>>
       THEN /\ samplerIter' = [samplerIter EXCEPT !.active = FALSE, !.done = TRUE]
            /\ samplerLast' = [op |-> "stop", value |-> 0]
       ELSE /\ samplerIter' = [samplerIter EXCEPT !.yielded = Append(@, Head(samplerIter.rest)),
                                                  !.rest = Tail(@)]
            /\ samplerLast' = [op |-> "next", value |-> 0]
    /\ SamplerUnchangedOthers

\* len(sampler)
SamplerLen ==
    /\ sampler.raised = "none"
    /\ samplerLast' = [op |-> "len", value |-> ReproducibleBatchSampler_len(sampler)]
    /\ UNCHANGED samplerIter
    /\ SamplerUnchangedOthers

SamplerInit ==
    /\ LoopInit({{}}, {"vanilla"}, {FALSE}, {[e \in EngineEvents |-> <<>>]},
                {[n \in HistoryNames |-> NoHistory]}, {{1}})
    /\ CondInit
    /\ BusIdle
    /\ MeterIdle
    /\ RedIdle
    /\ HistIdle
    /\ CmpIdle
    /\ CtorIdle
    /\ TimerIdle
    /\ SeedIdle
    /\ CacheIdle
    /\ BackendIdle
    /\ samplerArgs \in [n : 0..MaxDataset, batch_size : 1..MaxBatchSize,
                        drop_last : BOOLEAN, start_iteration : (0 - 1)..MaxStartIteration]
    /\ sampler = ReproducibleBatchSampler_init(
                    BatchSampler_batches(samplerArgs.n, samplerArgs.batch_size,
                                         samplerArgs.drop_last),
                    samplerArgs.start_iteration)
    /\ samplerIter = NoIteration
    /\ samplerLast = NoSamplerOp

SamplerNext ==
    \/ SamplerIter
    \/ SamplerNextBatch
    \/ SamplerLen

\* one ReproducibleBatchSampler, iterated and measured
SamplerSpec == SamplerInit /\ [][SamplerNext]_vars

WorkerNext(w) ==
    \/ TrainCall(w)
    \/ BarrierExit(w)
    \/ TrainPrepare(w)
    \/ TrainBatch(w)
    \/ TrainLoopExit(w)
    \/ TrainEndAndLog(w)
    \/ TrainEpochCompleted(w)

Next == \E w \in Workers : WorkerNext(w)

Spec == Init /\ [][Next]_vars

DistSpec == DistInit /\ [][Next]_vars

\* ------------------------------------------------------------ construction
\* classes whose constructor takes a size, a window or a frequency
SizedClasses == {"GenericHistory", "MovingAverage"} \cup MonitorClasses
\* VanillaTrainingLoop(clip_grad=...) or AccelerateTrainingLoop(clip_grad=...)
ConstructLoop(kind, clip_grad) ==
    /\ ctor.cls = "none"
    /\ LET r == setup_clip_grad(kind, clip_grad)
       IN /\ ctor' = [cls |-> kind, clip_grad |-> clip_grad, param |-> 0, result |-> r]
          /\ IF r.raised = "none"
             THEN loopKind' = kind /\ clipGrad' = (r.clip_grad_fn # "None")
             ELSE UNCHANGED <<loopKind, clipGrad>>
    /\ UNCHANGED <<world, handlers, modelLosses, pc, barrierCount, histories, numBatches,
                   batchIdx, metrics, timerCount, trace, lastBatch, losses, initial,
                   engineVars, condVars, busVars, meterVars, redVars, histVars, cmpVars,
                   timerVars, seedVars, cacheVars, backendVars,
                samplerVars>>

\* GenericHistory(max_size=param), MovingAverage(window_size=param) or a
\* monitor with freq=param
ConstructSized(cls, param) ==
    /\ ctor.cls = "none"
    /\ ctor' = [cls |-> cls, clip_grad |-> NoClipGrad, param |-> param,
                result |-> [NoClipGradFn EXCEPT !.raised = SizedInit(cls, param)]]
    /\ UNCHANGED <<loopVars, engineVars, condVars, busVars, meterVars, redVars, histVars,
                   cmpVars, timerVars, seedVars, cacheVars, backendVars,
                samplerVars>>

\* train() is a method of a loop that was built
LoopBuilt == ctor.cls \in LoopKinds /\ ctor.result.raised = "none"

\* nothing is built yet; the engine is ready for one epoch of one batch source
CtorInit ==
    /\ LoopInit({{1}}, {"vanilla"}, {FALSE}, {[e \in EngineEvents |-> <<>>]},
                {[n \in HistoryNames |-> NoHistory]}, {{1}})
    /\ CondInit
    /\ BusIdle
    /\ MeterIdle
    /\ RedIdle
    /\ HistIdle
    /\ CmpIdle
    /\ CtorIdle
    /\ TimerIdle
    /\ SeedIdle
    /\ CacheIdle
    /\ BackendIdle
    /\ SamplerIdle

CtorNext ==
    \/ \E kind \in LoopKinds : \E clip_grad \in ClipGradConfigs : ConstructLoop(kind, clip_grad)
    \/ \E cls \in SizedClasses : \E param \in CtorParams : ConstructSized(cls, param)
    \/ LoopBuilt /\ WorkerNext(1)

CtorSpec == CtorInit /\ [][CtorNext]_vars

\* ================================================================ claims
\* the names of the events fired in a sequence of operations, in order
FiredEvents(ops) ==
    LET f == SelectSeq(ops, LAMBDA x : x[1] = "fire")
    IN [i \in 1..Len(f) |-> f[i][2]]

Positions(ops, item) == {i \in 1..Len(ops) : ops[i] = item}
Contains(ops, item) == \E i \in 1..Len(ops) : ops[i] = item
Count(ops, item) == Cardinality(Positions(ops, item))
\* position of the k-th occurrence of an item
Kth(ops, item, k) ==
    LET P == Positions(ops, item)
    IN CHOOSE i \in P : Cardinality({j \in P : j <= i}) = k
Pos(ops, item) == Kth(ops, item, 1)
\* both items occur and the first occurrence of a precedes that of b
Before(ops, a, b) == Contains(ops, a) /\ Contains(ops, b) /\ Pos(ops, a) < Pos(ops, b)

\* a worker has run _train_one_batch at least once
RanBatch(w) == lastBatch[w].ops # <<>>

\* C1: in VanillaTrainingLoop._train_one_batch a batch with a NaN loss fires
\* exactly train_iteration_started, train_forward_completed and
\* train_iteration_completed, in that order; the backward pass, the clipping
\* function and optimizer.step() are not executed; the output is returned.
C1_VanillaNaNBatch ==
    \A w \in Workers :
        (loopKind = "vanilla" /\ RanBatch(w) /\ isnan(lastBatch[w].loss)) =>
            /\ FiredEvents(lastBatch[w].ops) =
                   <<TRAIN_ITERATION_STARTED, TRAIN_FORWARD_COMPLETED, TRAIN_ITERATION_COMPLETED>>
            /\ ~Contains(lastBatch[w].ops, Op("loss.backward"))
            /\ ~Contains(lastBatch[w].ops, Op("clip_grad_fn"))
            /\ ~Contains(lastBatch[w].ops, Op("optimizer.step"))
            /\ isnan(lastBatch[w].output)

C1_Witness ==
    \E w \in Workers :
        /\ loopKind = "vanilla" /\ clipGrad /\ RanBatch(w) /\ isnan(lastBatch[w].loss)
        /\ Contains(lastBatch[w].ops, Ev(TRAIN_ITERATION_COMPLETED))

\* C2: in AccelerateTrainingLoop._train_one_batch a batch with a NaN loss
\* skips the backward pass, the gradient clipping, optimizer.step() and the
\* train_backward_completed event, and still fires train_iteration_completed.
C2_AccelerateNaNSkipsStep ==
    \A w \in Workers :
        (loopKind = "accelerate" /\ RanBatch(w) /\ isnan(lastBatch[w].loss)) =>
            /\ ~Contains(lastBatch[w].ops, Op("loss.backward"))
            /\ ~Contains(lastBatch[w].ops, Op("clip_grad_fn"))
            /\ ~Contains(lastBatch[w].ops, Op("optimizer.step"))
            /\ ~Contains(lastBatch[w].ops, Ev(TRAIN_BACKWARD_COMPLETED))
            /\ Contains(lastBatch[w].ops, Ev(TRAIN_ITERATION_COMPLETED))

\* C3: a batch with a non-NaN loss fires exactly the four iteration events,
\* once each, in the order started, forward_completed, backward_completed,
\* completed; zero_grad is after iteration_started and before the forward
\* pass; optimizer.step() is after backward_completed and before
\* iteration_completed.
C3_FourEventsInOrder ==
    \A w \in Workers :
        (RanBatch(w) /\ ~isnan(lastBatch[w].loss)) =>
            LET ops == lastBatch[w].ops
            IN /\ FiredEvents(ops) =
                      <<TRAIN_ITERATION_STARTED, TRAIN_FORWARD_COMPLETED,
                        TRAIN_BACKWARD_COMPLETED, TRAIN_ITERATION_COMPLETED>>
               /\ Count(ops, Op("optimizer.zero_grad")) = 1
               /\ Count(ops, Op("model.forward")) = 1
               /\ Count(ops, Op("optimizer.step")) = 1
               /\ Before(ops, Ev(TRAIN_ITERATION_STARTED), Op("optimizer.zero_grad"))
               /\ Before(ops, Op("optimizer.zero_grad"), Op("model.forward"))
               /\ Before(ops, Op("model.forward"), Ev(TRAIN_FORWARD_COMPLETED))
               /\ Before(ops, Ev(TRAIN_BACKWARD_COMPLETED), Op("optimizer.step"))
               /\ Before(ops, Op("optimizer.step"), Ev(TRAIN_ITERATION_COMPLETED))

C3_Witness ==
    \E w \in Workers :
        /\ RanBatch(w) /\ ~isnan(lastBatch[w].loss)
        /\ Contains(lastBatch[w].ops, Op("optimizer.step"))
        /\ batchIdx[w] = MaxBatches

\* C4 as stated: with clipping configured and a non-NaN loss the order is
\* backward, fire train_backward_completed, clip, optimizer.step(), fire
\* train_iteration_completed.
C4_ClipAfterBackwardCompleted ==
    \A w \in Workers :
        (clipGrad /\ RanBatch(w) /\ ~isnan(lastBatch[w].loss)) =>
            LET ops == lastBatch[w].ops
            IN /\ Before(ops, Op("loss.backward"), Ev(TRAIN_BACKWARD_COMPLETED))
               /\ Before(ops, Ev(TRAIN_BACKWARD_COMPLETED), Op("clip_grad_fn"))
               /\ Before(ops, Op("clip_grad_fn"), Op("optimizer.step"))
               /\ Before(ops, Op("optimizer.step"), Ev(TRAIN_ITERATION_COMPLETED))

\* C4 amended: with clipping configured and a non-NaN loss the order is
\* backward, clip, fire train_backward_completed, optimizer.step(), fire
\* train_iteration_completed: the gradients are clipped right after the
\* backward pass, before train_backward_completed is fired.
C4_ClipBeforeBackwardCompleted ==
    \A w \in Workers :
        (clipGrad /\ RanBatch(w) /\ ~isnan(lastBatch[w].loss)) =>
            LET ops == lastBatch[w].ops
            IN /\ Count(ops, Op("clip_grad_fn")) = 1
               /\ Before(ops, Op("loss.backward"), Op("clip_grad_fn"))
               /\ Before(ops, Op("clip_grad_fn"), Ev(TRAIN_BACKWARD_COMPLETED))
               /\ Before(ops, Ev(TRAIN_BACKWARD_COMPLETED), Op("optimizer.step"))
               /\ Before(ops, Op("optimizer.step"), Ev(TRAIN_ITERATION_COMPLETED))

C4_Witness ==
    \E w \in Workers :
        /\ clipGrad /\ RanBatch(w) /\ ~isnan(lastBatch[w].loss)
        /\ Contains(lastBatch[w].ops, Op("clip_grad_fn"))
        /\ loopKind = "accelerate"

\* the operations of the batch loop
BatchItems ==
    {Ev(e) : e \in IterationEvents} \cup
    {Op(o) : o \in {"increment_iteration", "optimizer.zero_grad", "model.forward",
                    "loss.backward", "clip_grad_fn", "optimizer.step", "metrics.update",
                    "observer.update", "profiler.step"}}
BatchPositions(ops) == {i \in 1..Len(ops) : ops[i] \in BatchItems}
Done(w) == pc[w] = "done"

\* C5: one call of train() over n batches (n = 0 included) fires
\* train_epoch_started once, before anything batch-related; calls
\* observer.start once before the first batch; runs for each batch, in order,
\* the iteration events then one observer.update then one profiler.step;
\* calls observer.end once after the last batch; logs the timer stats and the
\* metric averages after observer.end; fires train_epoch_completed once,
\* after the metrics are logged.
C5_TrainSequence ==
    \A w \in Workers :
        Done(w) =>
            LET T == trace[w]
                n == numBatches[w]
            IN /\ \A x \in {Ev(TRAIN_EPOCH_STARTED), Op("observer.start"), Op("observer.end"),
                             Op("timer.log_stats"), Op("metrics.log_average_value"),
                             Ev(TRAIN_EPOCH_COMPLETED)} : Count(T, x) = 1
               /\ \A x \in {Ev(TRAIN_ITERATION_STARTED), Ev(TRAIN_FORWARD_COMPLETED),
                             Ev(TRAIN_ITERATION_COMPLETED), Op("observer.update"),
                             Op("profiler.step")} : Count(T, x) = n
               /\ Pos(T, Ev(TRAIN_EPOCH_STARTED)) < Pos(T, Op("observer.start"))
               /\ \A i \in BatchPositions(T) :
                      Pos(T, Op("observer.start")) < i /\ i < Pos(T, Op("observer.end"))
               /\ \A k \in 1..n :
                      /\ Kth(T, Ev(TRAIN_ITERATION_STARTED), k) < Kth(T, Ev(TRAIN_FORWARD_COMPLETED), k)
                      /\ Kth(T, Ev(TRAIN_FORWARD_COMPLETED), k) < Kth(T, Ev(TRAIN_ITERATION_COMPLETED), k)
                      /\ Kth(T, Ev(TRAIN_ITERATION_COMPLETED), k) < Kth(T, Op("observer.update"), k)
                      /\ Kth(T, Op("observer.update"), k) < Kth(T, Op("profiler.step"), k)
                      /\ k < n => Kth(T, Op("profiler.step"), k) < Kth(T, Ev(TRAIN_ITERATION_STARTED), k + 1)
               /\ Pos(T, Op("observer.end")) < Pos(T, Op("timer.log_stats"))
               /\ Pos(T, Op("observer.end")) < Pos(T, Op("metrics.log_average_value"))
               /\ Pos(T, Op("timer.log_stats")) < Pos(T, Ev(TRAIN_EPOCH_COMPLETED))
               /\ Pos(T, Op("metrics.log_average_value")) < Pos(T, Ev(TRAIN_EPOCH_COMPLETED))
               /\ \A i \in Positions(T, Lg(TimerKey)) \cup Positions(T, Lg(LossKey)) :
                      Pos(T, Op("observer.end")) < i /\ i < Pos(T, Ev(TRAIN_EPOCH_COMPLETED))
               /\ Count(T, Lg(TimerKey)) = (IF n = 0 THEN 0 ELSE 1)

C5_Witness ==
    \E w \in Workers :
        /\ Done(w) /\ numBatches[w] = MaxBatches
        /\ Contains(trace[w], Lg(LossKey)) /\ Contains(trace[w], Lg(TimerKey))

\* C6: with N workers running train(), barriers stand before the
\* preparation, after the data-loader construction, after the batch loop and
\* after train_epoch_completed; no worker fires train_epoch_completed before
\* every worker has finished its batch loop and logged its metrics; no worker
\* returns from train() before every worker has fired train_epoch_completed;
\* every worker makes the same number of barrier calls whatever its batches,
\* and no worker stays blocked at a barrier.
C6_Barriers ==
    /\ \A w \in world :
           Contains(trace[w], Ev(TRAIN_EPOCH_COMPLETED)) =>
               \A v \in world :
                   /\ batchIdx[v] = numBatches[v]
                   /\ Contains(trace[v], Op("profiler.exit"))
                   /\ Contains(trace[v], Op("metrics.log_average_value"))
    /\ \A w \in world :
           Done(w) => \A v \in world : Contains(trace[v], Ev(TRAIN_EPOCH_COMPLETED))
    /\ \A w \in world :
           Done(w) =>
               LET T == trace[w]
                   nb == Count(T, Op("dist.barrier"))
               IN /\ barrierCount[w] = Cardinality(WaitPcs)
                  /\ nb = barrierCount[w]
                  /\ Kth(T, Op("dist.barrier"), 1) < Pos(T, Op("manual_seed"))
                  /\ Pos(T, Op("prepare_model_optimizer_data_loader")) < Kth(T, Op("dist.barrier"), 2)
                  /\ \A i \in BatchPositions(T) : Kth(T, Op("dist.barrier"), 2) < i
                  /\ \A i \in BatchPositions(T) : i < Kth(T, Op("dist.barrier"), 3)
                  /\ Kth(T, Op("dist.barrier"), 3) < Pos(T, Op("observer.end"))
                  /\ Pos(T, Ev(TRAIN_EPOCH_COMPLETED)) < Kth(T, Op("dist.barrier"), nb)
    /\ \A w \in world : \A v \in world : (Done(w) /\ Done(v)) => barrierCount[w] = barrierCount[v]
    /\ \A w \in world : \A v \in world : barrierCount[w] - barrierCount[v] <= 1
    /\ ((\A w \in world : pc[w] \in WaitPcs \cup {"done"}) /\ (\E w \in world : ~Done(w))) =>
           \E w \in world : ENABLED BarrierExit(w)

C6_Witness ==
    /\ Cardinality(world) >= 2
    /\ \A w \in world : Done(w)
    /\ \E w \in world : \E v \in world : numBatches[w] = 0 /\ numBatches[v] = MaxBatches
    /\ \E w \in world : \E i \in 1..Len(losses[w]) : isnan(losses[w][i])

\* C7: train() increments engine.iteration exactly once per batch, before
\* the batch's train_iteration_started event, and never changes engine.epoch
\* itself: after n batches iteration has grown by n, and epoch has changed
\* only by what the event handlers did.
C7_IterationPerBatch ==
    \A w \in Workers :
        LET T == trace[w]
        IN /\ iteration[w] = initial[w].iteration + batchIdx[w]
           /\ Count(T, Op("increment_iteration")) = batchIdx[w]
           /\ \A k \in 1..batchIdx[w] :
                  /\ Kth(T, Op("increment_iteration"), k) < Kth(T, Ev(TRAIN_ITERATION_STARTED), k)
                  /\ k > 1 => Kth(T, Ev(TRAIN_ITERATION_COMPLETED), k - 1)
                                  < Kth(T, Op("increment_iteration"), k)
           /\ Done(w) => iteration[w] = initial[w].iteration + numBatches[w]
           /\ epoch[w] = initial[w].epoch + HandlerEpochIncrement * Count(T, Hd("increment_epoch"))

C7_Witness ==
    \E w \in Workers :
        /\ Done(w) /\ numBatches[w] = MaxBatches
        /\ iteration[w] = InitialCounter + MaxBatches
        /\ epoch[w] > InitialCounter

\* the losses of the epoch of a worker that are not NaN
RealLosses(w) == SelectSeq(losses[w], LAMBDA x : ~isnan(x))
IsPrefix(a, b) == Len(a) <= Len(b) /\ SubSeq(b, 1, Len(a)) = a

\* C8: after train() the engine has a history '<tag>/loss': a MinScalarHistory
\* created by the preparation when there was none, the registered one with
\* its earlier entries otherwise. An epoch of at least one batch whose losses
\* are not NaN appends exactly one entry; an epoch of zero batches, or whose
\* losses are all NaN, appends none, and get_last_value() on a history that
\* was empty before raises EmptyHistoryError.
C8_LossHistory ==
    \A w \in Workers :
        Done(w) =>
            LET h == histories[w][LossKey]
                before == initial[w].loss
                added == Len(h.values) - Len(before.values)
            IN /\ h.kind # "absent"
               /\ before.kind = "absent" => h.kind = "MinScalarHistory"
               /\ before.kind # "absent" => h.kind = before.kind
               /\ IsPrefix(before.values, h.values)
               /\ (numBatches[w] >= 1 /\ Len(RealLosses(w)) = numBatches[w]) => added = 1
               /\ (numBatches[w] = 0 \/ RealLosses(w) = <<>>) =>
                      /\ added = 0
                      /\ before.values = <<>> => get_last_value(h).raised = "EmptyHistoryError"

C8_Witness ==
    \E w \in Workers :
        /\ Done(w) /\ numBatches[w] = MaxBatches /\ Len(RealLosses(w)) = MaxBatches
        /\ initial[w].loss.values # <<>>
        /\ Len(histories[w][LossKey].values) = Len(initial[w].loss.values) + 1

\* C9: PeriodicCondition(freq) is a call counter: the k-th call returns True
\* iff (k - 1) mod freq = 0, and every call advances the counter whatever it
\* returned.
C9_PeriodicCondition ==
    condKind = "PeriodicCondition" =>
        /\ condStep = Len(condCalls)
        /\ \A k \in 1..Len(condCalls) : condCalls[k].result = ((k - 1) % condFreq = 0)

C9_Witness ==
    /\ condKind = "PeriodicCondition" /\ condFreq = 3
    /\ [k \in 1..Len(condCalls) |-> condCalls[k].result] =
           <<TRUE, FALSE, FALSE, TRUE, FALSE, FALSE, TRUE, FALSE, FALSE, TRUE>>

\* C10: EpochPeriodicCondition and IterationPeriodicCondition return True
\* exactly when the engine's epoch (resp. iteration) at call time is 0
\* modulo freq; they keep no counter, so calls against an unchanged engine
\* counter give the same answer, and a counter of -1 with freq 2 gives False.
C10_EnginePeriodicCondition ==
    condKind \in {"EpochPeriodicCondition", "IterationPeriodicCondition"} =>
        /\ condStep = 0
        /\ \A k \in 1..Len(condCalls) :
               condCalls[k].result = (condCalls[k].counter % condFreq = 0)
        /\ \A j \in 1..Len(condCalls) : \A k \in 1..Len(condCalls) :
               condCalls[j].counter = condCalls[k].counter =>
                   condCalls[j].result = condCalls[k].result
        /\ \A k \in 1..Len(condCalls) :
               (condFreq = 2 /\ condCalls[k].counter = 0 - 1) => condCalls[k].result = FALSE

C10_Witness ==
    /\ condKind = "EpochPeriodicCondition" /\ condFreq = 2
    /\ Len(condCalls) >= 4
    /\ condCalls[1].counter = 0 - 1 /\ condCalls[1].result = FALSE
    /\ condCalls[2].counter = 0 - 1 /\ condCalls[2].result = FALSE
    /\ \E k \in 1..Len(condCalls) : condCalls[k].counter = 2 /\ condCalls[k].result = TRUE

\* C11: add_unique_event_handler subscribes the handler only if the engine does
\* not have an equal handler for the event: no event ever holds two equal
\* subscriptions, a call for a handler that is already subscribed changes
\* nothing, a call for a new handler appends it to the event, and the
\* subscriptions of every other event are as before the call.
C11_AddUniqueEventHandler ==
    /\ \A e \in BusEvents : \A i, j \in 1..Len(subs[e]) : subs[e][i] = subs[e][j] => i = j
    /\ busLast.op = "add_unique_event_handler" =>
          LET e == busLast.event
              h == busLast.handler
              b == busLast.before
          IN /\ has_event_handler(b, h, e) => subs = b
             /\ ~has_event_handler(b, h, e) => subs[e] = Append(b[e], h)
             /\ \A o \in BusEvents \ {e} : subs[o] = b[o]

\* a call for a handler that was already subscribed to the event, on an engine
\* that also has a subscription for another event
C11_Witness ==
    /\ busLast.op = "add_unique_event_handler"
    /\ has_event_handler(busLast.before, busLast.handler, busLast.event)
    /\ \E o \in BusEvents \ {busLast.event} : subs[o] # <<>>

\* C12: whatever the number of attach(engine) and setup_and_attach_handlers
\* calls made before, one firing of an event runs the callback of each handler
\* object at most once.
C12_AtMostOncePerFiring ==
    busLast.op = "fire_event" => \A i \in Instances : Count(busLast.runs, i) <= 1

\* C12 for the four monitor classes only
C12_MonitorsAtMostOncePerFiring ==
    (busLast.op = "fire_event" /\ handlerCls \in MonitorClasses) =>
        \A i \in Instances : Count(busLast.runs, i) <= 1

\* the meter of class type that holds exactly the observations of bag b
Summarizes(type, m, b) ==
    CASE type \in {"AverageMeter", "MeanTensorMeter"} ->
            m = [EmptyMeter EXCEPT !.count = Held(b), !.total = ObsTotal(b)]
      [] type = "ExtremaTensorMeter" ->
            m = [EmptyMeter EXCEPT !.count = Held(b), !.min_value = ObsMin(b),
                                   !.max_value = ObsMax(b)]
      [] type = "TensorMeter" ->
            m = [EmptyMeter EXCEPT !.count = Held(b), !.total = ObsTotal(b),
                                   !.min_value = ObsMin(b), !.max_value = ObsMax(b)]
      [] OTHER -> m.count = Held(b) /\ TensorObs(m.values) = b

\* C13: an AverageMeter that was given the updates (value, num_examples) has
\* total = sum of value * num_examples and count = sum of num_examples;
\* average() returns total / count when count > 0 and raises EmptyMeterError
\* when count = 0, also after reset().
C13_AverageMeter ==
    meterType = "AverageMeter" =>
       /\ \A i \in CheckpointIds :
             /\ meters[i].total = ObsTotal(obs[i])
             /\ meters[i].count = Held(obs[i])
       /\ (meterLast.op = "read" /\ meterLast.accessor = "average") =>
             LET m == meters[meterLast.meter]
             IN /\ m.count > 0 => meterLast.result = Returns(<<m.total, m.count>>)
                /\ m.count = 0 => meterLast.result.raised = "EmptyMeterError"
       /\ meterLast.op = "reset" =>
             meter_read(meterType, meters[meterLast.meter], "average").raised = "EmptyMeterError"

\* average() raised on one meter while the other one, updated with more than
\* one example, has a positive total
C13_Witness ==
    /\ meterType = "AverageMeter"
    /\ meterLast.op = "read" /\ meterLast.accessor = "average"
    /\ meterLast.result.raised = "EmptyMeterError"
    /\ \E i \in CheckpointIds : meters[i].count > 1 /\ meters[i].total > 0
                               /\ meter_read(meterType, meters[i], "average").raised = "none"

\* C14: merging is a commutative and associative combination: whatever the
\* order and the grouping of the merge and merge_ calls, a meter holds exactly
\* the observations merged into it (counts and totals summed, extrema as min
\* and max); merge returns that combination as a new meter and leaves the
\* receiver and the arguments as they were; merge_ leaves the receiver in the
\* state merge would have returned.
C14_MergeCombination ==
    /\ \A i \in MeterIds : Summarizes(meterType, meters[i], obs[i])
    /\ meterLast.op = "merge" =>
          Summarizes(meterType, meterLast.out,
                     AddAllObs(obs, obs[meterLast.meter], meterLast.args))
    /\ meterLast.op = "merge_" =>
          meters[meterLast.meter] = MeterFromFields(meterType, meters[meterLast.meter])

\* C14 for the four O(1) meter classes
C14_ScalarMergeCombination == meterType \in ScalarMeterTypes => C14_MergeCombination

\* C17: a read accessor raises EmptyMeterError exactly when the meter holds no
\* observation, and returns when it holds at least one.
C17_EmptyMeterError ==
    meterLast.op = "read" =>
       /\ Held(obs[meterLast.meter]) = 0 <=> meterLast.result.raised = "EmptyMeterError"
       /\ Held(obs[meterLast.meter]) > 0 => meterLast.result.raised = "none"

\* C17 for every class but TensorMeter2
C17_ExceptTensorMeter2 == meterType # "TensorMeter2" => C17_EmptyMeterError

\* C18: after X.load_state_dict(Y.state_dict()), X.equal(Y) holds and X answers
\* count and every read accessor as Y does.
C18_RoundTrip ==
    meterLast.op = "load_state_dict" =>
       LET x == meters[meterLast.meter]
           y == meters[meterLast.args[1]]
       IN /\ meter_equal(meterType, x, y)
          /\ HasCount(meterType) => x.count = y.count
          /\ \A a \in Accessors(meterType) :
                meter_read(meterType, x, a) = meter_read(meterType, y, a)

\* C18 for every meter class but TensorMeter2
C18_ExceptTensorMeter2 == meterType # "TensorMeter2" => C18_RoundTrip

\* the observations held by all the workers together
AllObs == AddAllObs(obs, EmptyObs, [w \in Workers |-> w])

\* C15: every all_reduce() returns, on every worker, a new meter whose count and
\* total are the sums over the workers and whose extrema are the minimum of the
\* minima and the maximum of the maxima, also when some workers hold an empty
\* meter; the local meters stay as they were.
C15_AllReduce ==
    /\ \A w \in Workers : \A c \in 1..Len(redOut[w]) :
          Summarizes(meterType, redOut[w][c], AllObs)
    /\ \A w \in Workers : Summarizes(meterType, meters[w], obs[w])
    /\ \A w, v \in Workers : \A c \in 1..Len(redOut[w]) :
          c <= Len(redOut[v]) => redOut[w][c] = redOut[v][c]

\* all the workers are back from all_reduce() on meters with extrema, one of
\* them holding an empty meter and another one a non-empty meter
C15_Witness ==
    /\ meterType \in {"ExtremaTensorMeter", "TensorMeter"}
    /\ \A w \in Workers : Len(redOut[w]) = MaxReduceCalls
    /\ \E w, v \in Workers : meters[w].count = 0 /\ meters[v].count > 0
                             /\ redOut[w][1].min_value = meters[v].min_value

\* the operation kinds of the collectives of one all_reduce() call
CollectiveKinds(type) ==
    CASE type \in {"AverageMeter", "MeanTensorMeter"} -> <<SUM, SUM>>
      [] type = "ExtremaTensorMeter" -> <<SUM, MIN, MAX>>
      [] OTHER -> <<SUM, SUM, MIN, MAX>>

\* C16: all_reduce() enters a fixed number of collectives in a fixed order of
\* operation kinds, whatever the local meter holds; the collectives of the
\* workers pair up and no worker stays blocked in one.
C16_CollectiveSafe ==
    LET kinds == CollectiveKinds(meterType)
    IN /\ \A w \in Workers : \A k \in 1..Len(redPosted[w]) :
             redPosted[w][k].op = kinds[((k - 1) % Len(kinds)) + 1]
       /\ \A w \in Workers : Len(redPosted[w]) <= MaxReduceCalls * Len(kinds)
       /\ \A w, v \in Workers : \A k \in 1..Len(redPosted[w]) :
             k <= Len(redPosted[v]) => redPosted[w][k].op = redPosted[v][k].op
       /\ (\E w \in Workers : Len(redOut[w]) < MaxReduceCalls) => ENABLED ReduceNext

\* every worker made all its all_reduce() calls, one on an empty meter and
\* another one on a non-empty meter
C16_Witness ==
    /\ \A w \in Workers : Len(redOut[w]) = MaxReduceCalls /\ ~InCollective(w)
    /\ \E w, v \in Workers : meters[w].count = 0 /\ meters[v].count > 0

\* the last n elements of a sequence
LastN(s, n) == IF Len(s) <= n THEN s ELSE SubSeq(s, Len(s) - n + 1, Len(s))

\* C19: a GenericHistory retains exactly the last min(n, max_size) of the n
\* (step, value) pairs it was given (initial elements, then add_value calls),
\* in insertion order, never more than max_size of them, and get_last_value()
\* returns the value of the most recently added pair (EmptyHistoryError when
\* there is none).
C19_BoundedFifo ==
    hist.raised = "none" =>
       /\ get_recent_history(hist) = LastN(histAdded, Min2(Len(histAdded), hist.max_size))
       /\ Len(get_recent_history(hist)) <= hist.max_size
       /\ histLast.op = "get_last_value" =>
             IF histAdded = <<>>
             THEN histLast.result.raised = "EmptyHistoryError"
             ELSE /\ histLast.result.raised = "none"
                  /\ histLast.result.value = histAdded[Len(histAdded)][2]

\* a history of max_size 2 that was given three pairs, two of them with
\* distinct values after the first, and was asked for its last value
C19_Witness ==
    /\ hist.raised = "none"
    /\ hist.max_size = 2
    /\ Len(histAdded) = 3
    /\ histAdded[1] # histAdded[2]
    /\ histAdded[2] # histAdded[3]
    /\ histLast.op = "get_last_value"

\* the greatest (max comparator) or smallest (min comparator) of the scores
BestOf(kind, scores) ==
    CHOOSE x \in {scores[i] : i \in 1..Len(scores)} :
       \A i \in 1..Len(scores) :
          IF kind = "MaxScalarComparator" THEN scores[i] <= x ELSE x <= scores[i]

\* C20: is_better(old, new) is old <= new for the max comparator and
\* new <= old for the min comparator; from the initial best value, the first
\* score replaces the initial value and the best after any non-empty sequence
\* of scores is its maximum (minimum), taken at its last occurrence.
C20_ComparatorPolicy ==
    /\ \A old \in Scores \union {NegInf, PosInf} : \A new \in Scores :
          /\ is_better("MaxScalarComparator", old, new) <=> old <= new
          /\ is_better("MinScalarComparator", old, new) <=> new <= old
    /\ cmpKind \in ComparatorKinds /\ cmpScores # <<>> =>
          /\ cmpBestAt >= 1
          /\ cmpBest = BestOf(cmpKind, cmpScores)
          /\ cmpScores[cmpBestAt] = cmpBest
          /\ \A i \in 1..Len(cmpScores) : cmpScores[i] = cmpBest => i <= cmpBestAt
    /\ cmpKind \in ComparatorKinds /\ Len(cmpScores) = 1 => cmpBest = cmpScores[1]

\* the best score was seen twice, and a worse score after it
C20_Witness ==
    /\ cmpKind \in ComparatorKinds
    /\ Len(cmpScores) >= 3
    /\ cmpBestAt = 2
    /\ cmpScores[1] = cmpScores[2]
    /\ cmpScores[3] # cmpScores[2]

\* C21: the constructor of both loop classes resolves clip_grad: no
\* configuration gives no function and no arguments, clip_grad_value gives
\* (clip_value,) with default 0.25, clip_grad_norm gives (max_norm, norm_type)
\* with defaults (1, 2), and any other name raises ValueError in the
\* constructor, so that train() never runs on such a loop.
C21_ClipGradSetup ==
    ctor.cls \in LoopKinds =>
       LET c == ctor.clip_grad
           r == ctor.result
       IN /\ c.none \/ c.keys = {} =>
                r.raised = "none" /\ r.clip_grad_fn = "None" /\ r.clip_grad_args = <<>>
          /\ ~c.none /\ "name" \in c.keys /\ c.name = "clip_grad_value" =>
                /\ r.raised = "none" /\ r.clip_grad_fn # "None"
                /\ r.clip_grad_args =
                      <<IF "clip_value" \in c.keys THEN c.clip_value ELSE <<1, 4>> >>
          /\ ~c.none /\ "name" \in c.keys /\ c.name = "clip_grad_norm" =>
                /\ r.raised = "none" /\ r.clip_grad_fn # "None"
                /\ r.clip_grad_args =
                      <<IF "max_norm" \in c.keys THEN c.max_norm ELSE <<1, 1>>,
                        IF "norm_type" \in c.keys THEN c.norm_type ELSE <<2, 1>> >>
          /\ ~c.none /\ "name" \in c.keys
                /\ c.name \notin {"clip_grad_value", "clip_grad_norm"} =>
                /\ r.raised = "ValueError"
                /\ trace[1] = <<>> /\ batchIdx[1] = 0 /\ pc[1] = "call"
          /\ r.raised = "none" => clipGrad = (r.clip_grad_fn # "None")

\* a loop built with a clipping strategy and default arguments has trained
\* on a batch
C21_WitnessTrained ==
    /\ ctor.cls \in LoopKinds
    /\ ~ctor.clip_grad.none
    /\ ctor.clip_grad.keys = {"name"}
    /\ ctor.clip_grad.name = "clip_grad_norm"
    /\ batchIdx[1] >= 1

\* a constructor was called with an unknown strategy name
C21_Witness ==
    /\ ctor.cls \in LoopKinds
    /\ "name" \in ctor.clip_grad.keys
    /\ ctor.clip_grad.name = "incorrect name"

\* C24: GenericHistory with max_size <= 0, MovingAverage with window_size <= 0
\* and the four monitors with freq < 1 raise an error in their constructor.
C24_NonPositiveRejected ==
    ctor.cls \in SizedClasses /\ ctor.param <= 0 => ctor.result.raised # "none"

\* C24 for every class but MovingAverage
C24_ExceptMovingAverage == ctor.cls # "MovingAverage" => C24_NonPositiveRejected

\* C22: over a batch loader of zero batches get_stats() returns {} and
\* log_stats(engine) makes no engine.log_metrics call; over n >= 1 batches
\* iterated to exhaustion log_stats(engine) makes exactly one log_metrics call,
\* whose keys all carry the prefix and whose step is the epoch of the timer.
C22_LogStats ==
    LET n == Len(timer.batch_loader)
    IN /\ timerLast.op \in {"get_stats", "log_stats"} /\ n = 0 =>
             /\ timerLast.stats.raised = "none" /\ timerLast.stats.keys = {}
             /\ timerLast.calls = <<>>
       /\ timerLast.op = "log_stats" /\ timerLast.engine /\ n >= 1
             /\ timerGen.state = "done" =>
             /\ Len(timerLast.calls) = 1
             /\ timerLast.calls[1].keys = {"train/" \o key : key \in StatKeys}
             /\ timerLast.calls[1].step = timer.epoch

\* log_stats(engine) after a complete iteration over two batches
C22_Witness ==
    /\ timerLast.op = "log_stats"
    /\ timerLast.engine
    /\ Len(timer.batch_loader) = 2
    /\ timerGen.state = "done"
    /\ Len(timerLast.calls) = 1

\* log_stats(engine) on a timer whose batch loader has no batch, after its iteration
C22_WitnessNoBatch ==
    /\ timerLast.op = "log_stats"
    /\ timerLast.engine
    /\ Len(timer.batch_loader) = 0
    /\ timerGen.state = "done"

\* C23: the timer yields the batches of its batch loader unchanged, in order
\* and once each, and get_stats() returns a non-empty dict only when the most
\* recent iteration has run to exhaustion, its epoch time being the end time
\* minus the start time of that iteration.
C23_StatsOnlyAfterFullIteration ==
    /\ timerGen.yielded = SubSeq(timer.batch_loader, 1, Len(timerGen.yielded))
    /\ timerGen.state = "done" => timerGen.yielded = timer.batch_loader
    /\ timerLast.op = "get_stats" /\ timerLast.stats.raised = "none"
          /\ timerLast.stats.keys # {} /\ timerGen.state # "created" =>
          /\ timerGen.state = "done"
          /\ timerLast.stats.epoch_time_sec = timerGen.ended_at - timerGen.started_at

\* C23 restricted to the first iteration over the timer
C23_FirstIteration == timerIters <= 1 => C23_StatsOnlyAfterFullIteration

\* two workers that reseeded at the same epoch hold different seeds
DistinctSeeds ==
    \A w, v \in Workers :
       w # v /\ seedLast[w].set /\ seedLast[v].set /\ seedLast[w].epoch = seedLast[v].epoch
          => seedLast[w].seed # seedLast[v].seed

\* C25: the seed is a function of (random_seed, epoch, max_epochs, rank): a
\* worker that reseeds again at the same epoch gets the same seed, and two
\* workers of different ranks never derive the same seed at the same epoch.
C25_ReseedPure == seedStable /\ DistinctSeeds

\* C25 for engines with max_epochs >= 1
C25_PositiveMaxEpochs == seedCfg.max_epochs >= 1 => C25_ReseedPure

\* C26: an AverageMeter has count >= 0 in every state reached from a fresh
\* meter by update(value, num_examples), merge_ and reset.
C26_CountNonNegative ==
    meterType = "AverageMeter" => \A i \in MeterIds : meters[i].count >= 0

\* C28: a TensorMeter2 has count equal to the number of values it stores in
\* every state reached by update, reset, merge_ and load_state_dict.
C28_CountIsNumberOfValues ==
    meterType = "TensorMeter2" => \A i \in MeterIds : meters[i].count = Len(meters[i].values)

\* C28 for reset: the meter reset last stores no value and counts none
C28_ResetRestores ==
    meterType = "TensorMeter2" /\ meterLast.op = "reset" =>
       /\ meters[meterLast.meter].count = 0
       /\ Len(meters[meterLast.meter].values) = 0

\* the wrapped creator succeeded at most once, and each of its calls got the
\* engine of the create call that made it
WrappedOnce ==
    /\ Cardinality({k \in DOMAIN wrappedCalls : wrappedCalls[k].ok}) <= 1
    /\ \A k \in DOMAIN wrappedCalls :
          /\ wrappedCalls[k].engine = createCalls[wrappedCalls[k].call]
          /\ wrappedCalls[k].ok => \A j \in 1..(k - 1) : ~wrappedCalls[j].ok
\* a wrapped create that raised left the cache unmarked, and a call on an
\* unmarked cache invokes the wrapped creator
RetryAfterFailure ==
    cacheLast.op = "create" =>
       /\ cacheLast.raised # "none" => ~oneCache.is_cache_created
       /\ cacheLast.invoked = ~cacheLast.cached_before
\* the create call made last found the cache filled
LaterCall == cacheLast.op = "create" /\ cacheLast.cached_before

C27_WitnessNotCopied ==
    /\ LaterCall
    /\ oneCache.deepcopy
    /\ cacheLast.warned


\* outside every with-block the settings are the prior ones and no snapshot is kept
Restored ==
    withCtl.depth = 0 => backend = DefaultBackend(mgr.cls) /\ mgr.state = <<>>

\* C29: after any properly nested sequence of enters and exits, exits caused by
\* an exception in the body or in configure included, every backend setting
\* equals its value before the outermost enter and the snapshot stack is empty.
C29_RestoredOnEveryExit == Restored /\ Len(mgr.state) = withCtl.depth

\* C29 for the managers whose configure() never raises
C29_WhenConfigureSucceeds ==
    (\A n \in SettingNames(mgr.cls) : mgr.cfg[n] # BadSetting) =>
       Restored /\ Len(mgr.state) = withCtl.depth


\* the batches of the wrapped sampler from index start_iteration onward
WrappedTail ==
    LET all == BatchSampler_batches(samplerArgs.n, samplerArgs.batch_size,
                                    samplerArgs.drop_last)
    IN [k \in 1..(IF Len(all) > samplerArgs.start_iteration
                  THEN Len(all) - samplerArgs.start_iteration ELSE 0) |->
           all[samplerArgs.start_iteration + k]]
\* a negative start_iteration is rejected, and a finished iteration yielded
\* the tail of the wrapped sampler's batches in order
YieldsTail ==
    /\ (sampler.raised = "ValueError") = (samplerArgs.start_iteration < 0)
    /\ samplerIter.done => samplerIter.yielded = WrappedTail

\* C30: iteration yields exactly the batches of the wrapped sampler from index
\* start_iteration onward, in order, len(sampler) equals the number of batches
\* that iteration yields, and a negative start_iteration is rejected.
C30_IterAndLen ==
    /\ YieldsTail
    /\ samplerLast.op = "len" => samplerLast.value = Len(WrappedTail)

\* C30 without the length: what iteration yields, and the rejected argument
C30_IterFromStart == YieldsTail

\* C30 for start_iteration = 0: the length is the number of batches yielded
C30_LenFromZero ==
    samplerLast.op = "len" /\ samplerArgs.start_iteration = 0 =>
       samplerLast.value = Len(WrappedTail)

====
